---- MODULE Spec2Model ----
(***************************************************************************)
(* A model of the prometrics crate: its 64-bit atomic cell, the Counter,   *)
(* Gauge, Histogram and Summary metrics and the copy-on-write label set.   *)
(*                                                                         *)
(* f64 values are modelled by a miniature binary floating point format:    *)
(* a finite value is an integer number of quanta of 1/Scale that has at    *)
(* most MantBits significant bits; every arithmetic result is rounded to   *)
(* nearest, ties to even, and overflows to an infinity.  u64 values are    *)
(* WordBits wide and wrap.  The widths are scaled down from 53 and 64 so   *)
(* that rounding, saturation and wrap-around are all within reach of the   *)
(* model checker.                                                          *)
(***************************************************************************)
EXTENDS Integers, Sequences, FiniteSets, TLC

\* ------------------------------------------------------------------ bounds

\* Fraction bits of the miniature f64: one quantum is 1 / 2^FracBits.
FracBits == 2
\* Significant bits of the miniature f64 (53 in an f64).
MantBits == 4
\* Width of the miniature u64 (64 in the program).
WordBits == 5
\* Number of threads that mutate a shared metric.
NumThreads == 2
\* Number of mutating calls made on the counter in one behaviour.
MaxCalls == 4

\* ------------------------------------------------------------- f64 and u64

RECURSIVE Pow2(_)
Pow2(n) == IF n = 0 THEN 1 ELSE 2 * Pow2(n - 1)

Scale == Pow2(FracBits)
One == Scale
Half == Scale \div 2

\* 2^WordBits: u64 values are 0 .. Modulus - 1.
Modulus == Pow2(WordBits)
U64Max == Modulus - 1

\* The largest finite f64, in quanta; it is larger than U64Max.
MaxShift == WordBits + FracBits
FMax == (Pow2(MantBits) - 1) * Pow2(MaxShift)
PInf == 4 * FMax
NInf == 0 - PInf
NaN == PInf + 1
\* "no value yet" in a slot that otherwise holds an f64.
NoVal == PInf + 2

IsNaN(x) == x = NaN
IsInfinite(x) == x = PInf \/ x = NInf
IsFinite(x) == ~IsNaN(x) /\ ~IsInfinite(x)

Abs(x) == IF x < 0 THEN 0 - x ELSE x

\* The exponent at which a magnitude of a quanta is rounded: the least e with
\* a < 2^(MantBits + e).
RECURSIVE ShiftOf(_, _)
ShiftOf(a, e) == IF a < Pow2(MantBits + e) THEN e ELSE ShiftOf(a, e + 1)

\* The exact number x (in quanta) rounded to the nearest f64, ties to even.
RoundF(x) ==
    LET a == Abs(x)
        e == ShiftOf(a, 0)
        unit == Pow2(e)
        m == a \div unit
        r == a % unit
        up == (2 * r > unit) \/ (2 * r = unit /\ m % 2 = 1)
        mag == (IF up THEN m + 1 ELSE m) * unit
    IN  IF mag > FMax THEN (IF x < 0 THEN NInf ELSE PInf)
        ELSE IF x < 0 THEN 0 - mag ELSE mag

\* a + b on f64.
FAdd(a, b) ==
    IF IsNaN(a) \/ IsNaN(b) THEN NaN
    ELSE IF IsInfinite(a) THEN (IF IsInfinite(b) /\ a # b THEN NaN ELSE a)
    ELSE IF IsInfinite(b) THEN b
    ELSE RoundF(a + b)

\* a * b on f64: the exact product, in units of 1/Scale^2, rounded once.
FMul(a, b) ==
    IF IsNaN(a) \/ IsNaN(b) THEN NaN
    ELSE IF IsInfinite(a) \/ IsInfinite(b)
         THEN (IF a = 0 \/ b = 0 THEN NaN
               ELSE IF (a < 0) = (b < 0) THEN PInf ELSE NInf)
    ELSE LET p == Abs(a * b)
             e == ShiftOf(p \div Scale, 0)
             unit == Scale * Pow2(e)
             m == p \div unit
             r == p % unit
             up == (2 * r > unit) \/ (2 * r = unit /\ m % 2 = 1)
             mag == (IF up THEN m + 1 ELSE m) * Pow2(e)
             neg == (a < 0) # (b < 0)
         IN  IF mag > FMax THEN (IF neg THEN NInf ELSE PInf)
             ELSE IF neg THEN 0 - mag ELSE mag

\* Comparisons of f64: every comparison with a NaN is false.
FLe(a, b) == ~IsNaN(a) /\ ~IsNaN(b) /\ a <= b
FLt(a, b) == ~IsNaN(a) /\ ~IsNaN(b) /\ a < b
FGe(a, b) == FLe(b, a)
FGt(a, b) == FLt(b, a)

\* f64::floor and f64::ceil.
FFloor(x) == IF IsFinite(x) THEN (x \div Scale) * Scale ELSE x
FCeil(x) == IF IsFinite(x) THEN 0 - (((0 - x) \div Scale) * Scale) ELSE x

\* `x as u64`: truncates, saturates at 0 and at u64::MAX, NaN gives 0.
CastU64(x) ==
    IF IsNaN(x) \/ x <= 0 THEN 0
    ELSE IF x >= Modulus * Scale THEN U64Max
    ELSE x \div Scale

\* `n as f64` for a u64 n.
U64ToF64(n) == RoundF(n * Scale)

\* ------------------------------------------------------- Atomic64 (atomic.rs)

\* AtomicUsize::fetch_add: wrapping addition; the new value of the cell.
FetchAddOne(cell, n) == (cell + 1) % Modulus
FetchAdd(cell, n) == (cell + n) % Modulus

\* AtomicUsize::compare_and_swap as used by Atomic64::update: whether the swap
\* takes place.
CasSucceedsAlways(cell, old) == TRUE
CasSucceedsNever(cell, old) == FALSE
CasSucceeds(cell, old) == cell = old

\* ------------------------------------------------------------------- state

VARIABLES
    \* Counter (metrics/counter.rs): the two accumulators of Value.
    counter_f64, counter_u64,
    \* Per thread: where it is inside Counter::add's float path, the count it
    \* is adding there and the f64 it read in the update loop.
    c_pc, c_count, c_old,
    \* The last Counter::add that returned: <<count, result, number of calls
    \* made so far>>.
    c_last,
    \* History: the number of mutating calls made, the threads that made
    \* them, the sum of the amounts given to increment and add_u64, and
    \* whether those are the only calls that have mutated the counter.
    c_calls, c_callers, c_total, c_onlyInt,
    \* A thread reading Counter::value(): its position, the f64 it loaded and
    \* the value its last completed read returned.
    rd_pc, rd_f64, rd_last

counterVars == <<counter_f64, counter_u64, c_pc, c_count, c_old, c_last, c_calls,
                 c_callers, c_total, c_onlyInt, rd_pc, rd_f64, rd_last>>

VARIABLES
    \* Inner.value of the gauge.
    gauge_value,
    \* Per thread: where it is inside Atomic64::update, the count Gauge::add
    \* was called with and the value `self.get()` returned.
    g_pc, g_count, g_old,
    \* History: the number of calls made; the value of the last store (the
    \* initial value, or the last Gauge::set) and the sum of the counts of the
    \* Gauge::add calls that have returned since; the kind of the last write;
    \* and the kinds of write that have made a compare_and_swap fail.
    g_calls, g_base, g_net, g_lastWrite, g_lost,
    \* Per thread: where it is inside Gauge::track_inprogress ("idle",
    \* "increment", "f", "decrement").
    tp_pc

gaugeVars == <<gauge_value, g_pc, g_count, g_old, g_calls, g_base, g_net,
               g_lastWrite, g_lost, tp_pc>>

VARIABLES
    \* HistogramBuilder.bucket_upper_bounds, and whether finish has been
    \* called and with which result: "builder", "ok" or "InvalidInput".
    hb_bounds, hist_state,
    \* Inner of the histogram: the upper bound and the counter of each bucket,
    \* the total count and the sum.
    hist_bounds, hist_buckets, hist_count, hist_sum,
    \* Per thread: where it is inside Histogram::observe, the value it
    \* observes and the sum it read in the update loop.
    h_pc, h_value, h_old,
    \* History: the number of observe calls made and how many times each value
    \* has been observed.
    h_calls, h_seen

histogramVars == <<hb_bounds, hist_state, hist_bounds, hist_buckets, hist_count,
                   hist_sum, h_pc, h_value, h_old, h_calls, h_seen>>

VARIABLES
    \* SummaryBuilder.quantiles, and whether finish has been called and with
    \* which result: "builder", "ok" or "InvalidInput"; "panicked" once the
    \* thread that uses the summary has panicked.
    sb_quantiles, sum_state,
    \* Inner of the summary: the window, the sorted quantiles, the deque of
    \* <<time, value>> samples, the count and the sum.
    sum_window, sum_quantiles, sum_samples, sum_count, sum_sum,
    \* SystemTime::now(), in ticks.
    s_now,
    \* History: the number of observe calls made and the f64 sum of their
    \* values, in call order.
    s_observed, s_total,
    \* What happened last ("new", "tick", "observe" or "quantiles") and, when
    \* it was a call of Summary::quantiles, what the call returned: a sequence
    \* of <<quantile, value>>.
    s_last, s_result

summaryVars == <<sb_quantiles, sum_state, sum_window, sum_quantiles, sum_samples,
                 sum_count, sum_sum, s_now, s_observed, s_total, s_last,
                 s_result>>

VARIABLES
    \* The labels of a metric's builder, a sequence of <<name, value>>, and
    \* whether finish has been called and with which result: "builder", "ok"
    \* or "InvalidInput".
    lb_labels, lab_state,
    \* Labels: the vector the AtomicImmut holds, a sequence of <<name, value>>.
    labels,
    \* LabelsMut.reserved: a name, or NoName.
    lab_reserved,
    \* Per thread: where it is inside AtomicImmut::update, the operation it
    \* performs (<<"insert", name, value>> or <<"remove", name>>), the vector
    \* it loaded, and whether that vector is still the one the AtomicImmut
    \* holds (every store installs a new vector).
    l_pc, l_op, l_old, l_current,
    \* History: the number of LabelsMut calls made, whether an insert has
    \* replaced the value of a label that was there, and the last stores:
    \* <<"inserted", vector before, name>> after an insert's store,
    \* <<"removed", vector before the insert, name>> when the very next store
    \* is a remove of that name, << >> otherwise.
    l_calls, l_replaced, l_round

labelVars == <<lb_labels, lab_state, labels, lab_reserved, l_pc, l_op, l_old,
               l_current, l_calls, l_replaced, l_round>>

VARIABLES
    \* A reader's Iter: where the reader is ("idle", "iterating", "done"), the
    \* vector its Arc points to, the position of the slice iterator, and the
    \* labels next() has yielded.
    it_pc, it_labels, it_pos, it_seen

iterVars == <<it_pc, it_labels, it_pos, it_seen>>

VARIABLES
    \* The metrics the application has built: for each, its <<name, kind>> (or
    \* NoMetric) and the number of handles (the handle and its clones) the
    \* application holds.
    m_def, app_handles,
    \* The collectors registered so far: col_metric[c] is the metric whose
    \* Weak<Inner> collector c holds; collectors are numbered in the order of the
    \* register calls.
    col_metric,
    \* Whether the Gatherer exists, the mpsc channel, and Gatherer.collectors.
    gatherer_alive, channel, collectors,
    \* Gatherer::gather: where it is ("idle", "drain", "poll"), the index i, and
    \* the metrics vector (after the call has returned: what it had collected).
    ga_pc, ga_i, ga_metrics,
    \* The MetricFamilies the last gather returned, a sequence of
    \* <<name, kind, members>>, and whether the application still holds it.
    ga_result, snap_held,
    \* What the last Registry::register did: <<result of send, value returned>>.
    reg_last,
    \* History of the current gather: the collectors polled, in order; the live
    \* list when the channel had been drained; the collectors that were
    \* registered and not removed when it started.
    ga_polled, ga_live0, ga_known,
    \* History: the collectors removed from the live list; per metric, the
    \* number of gathers started since the application dropped its last handle
    \* (up to 2), and whether a gather has started when nothing held the metric.
    removed, afterDrop, freeStart

registryVars == <<m_def, app_handles, col_metric, gatherer_alive, channel,
                  collectors, ga_pc, ga_i, ga_metrics, ga_result, snap_held,
                  reg_last, ga_polled, ga_live0, ga_known, removed, afterDrop,
                  freeStart>>

VARIABLES
    \* A MetricFamily of counters or of gauges being folded by gather: its
    \* kind, its name (NoName before MetricFamily::new), and its entries, a
    \* sequence of aggregated metrics [name, labels, value, timestamp].
    ag_kind, ag_name, ag_entries,
    \* History: the metrics pushed into the family so far, in order, and the
    \* last try_merge call: <<receiver before, other, receiver after, result>>.
    ag_pushed, ag_merge

aggregateVars == <<ag_kind, ag_name, ag_entries, ag_pushed, ag_merge>>

VARIABLES
    \* The histograms of an AggregatedHistogram, each a sequence of buckets
    \* <<upper_bound, count>>; the iterator AggregatedCumulativeBuckets: where
    \* it is ("idle", "iterating", "done"), its peekable slice iterators (the
    \* buckets each has left) and its cumulative_count.
    ab_inners, ab_pc, ab_iters, ab_cumulative_count,
    \* History: the CumulativeBuckets next() has yielded, <<upper_bound,
    \* cumulative_count>> each.
    ab_yielded

aggBucketsVars == <<ab_inners, ab_pc, ab_iters, ab_cumulative_count, ab_yielded>>

VARIABLES
    \* Timestamp (timestamp.rs): the AtomicI64 of a metric's timestamp.
    ts_cell,
    \* History: the last call on the timestamp, <<method, argument, outcome>>,
    \* and what the last call that took effect left: << >> after new and after
    \* clear, <<t>> after a set(t) that returned.
    ts_last, ts_want

timestampVars == <<ts_cell, ts_last, ts_want>>

VARIABLES
    \* ObservedCounter (metrics/observed_counter.rs): Inner.value.
    oc_value,
    \* History: the last set call, <<count, result, value() before the call>>,
    \* and what the last value() call returned.
    oc_last, oc_read

observedVars == <<oc_value, oc_last, oc_read>>

VARIABLES
    \* A label <<name, value>> of a metric that is rendered, the place it was
    \* last rendered at ("none", "label", "bucket", "quantile") and the text
    \* written for it there.
    lr_label, lr_place, lr_out

renderVars == <<lr_label, lr_place, lr_out>>

VARIABLES
    \* An Atomic64<f64> that threads accumulate into with update(|v| v + count)
    \* without end: the cell; per thread, where it is in update ("idle", "get",
    \* "cas"), the count it adds and the value it read.
    at_cell, at_pc, at_count, at_old,
    \* History: per thread, whether a compare_and_swap of its current (or last)
    \* call has failed; the thread whose store took effect in the last step (0
    \* when the last step stored nothing).
    at_retried, at_event

updateVars == <<at_cell, at_pc, at_count, at_old, at_retried, at_event>>

VARIABLES
    \* A reader of the histogram, as Display for Histogram reads it: where it
    \* is ("idle", "buckets", "sum", "count", "done"), the index of the bucket
    \* CumulativeBuckets reads next and its cumulative_count, and the count
    \* the reader got (the sum it got goes to the output and is not kept).
    hr_pc, hr_i, hr_cumulative_count, hr_count,
    \* History: Histogram::count() when the read began.
    hr_count0

histReadVars == <<hr_pc, hr_i, hr_cumulative_count, hr_count, hr_count0>>

VARIABLES
    \* Per thread that calls Summary::observe on its clone of the summary:
    \* where it is ("idle", "lock", "count", "get", "cas"), the SystemTime::now()
    \* it took, the value it observes and the sum it read in the update loop.
    so_pc, so_now, so_value, so_old

sumObserveVars == <<so_pc, so_now, so_value, so_old>>

VARIABLES
    \* The labels of a metric that threads edit through their clones: the
    \* vector the AtomicImmut holds and the identity of its Arc (every store
    \* installs a new one).
    lc_labels, lc_ptr,
    \* Per thread: where it is inside AtomicImmut::update ("idle", "load",
    \* "cas"), the edit it makes (<<"insert", name, value>> or
    \* <<"remove", name>>), the vector it loaded and the identity of that
    \* vector's Arc.
    lc_pc, lc_op, lc_old, lc_old_ptr,
    \* History: the number of LabelsMut calls made; per thread, whether a
    \* compare-and-swap of its current (or last) call has failed; and for each
    \* name the value that the edits which took effect so far, one after the
    \* other, leave for it (<<value>>, or << >> for none).
    lc_calls, lc_retried, lc_want

labelsConcVars == <<lc_labels, lc_ptr, lc_pc, lc_op, lc_old, lc_old_ptr,
                    lc_calls, lc_retried, lc_want>>

VARIABLES
    \* The labels of a metric as Arc<Vec<Label>> snapshots: the snapshot the
    \* AtomicImmut holds, the labels of every snapshot made so far, the strong
    \* count of each and the snapshots that have been freed.
    rf_cell, rf_vec, rf_strong, rf_freed,
    \* A reader with a borrow of the Labels: the snapshot its Iter holds (0 for
    \* no Iter), the position of the slice iterator, the &Label it keeps
    \* (<<snapshot, index>>, or << >> for none) and what it last read through
    \* it.
    rd_iter, rd_pos, rd_ref, rd_read

labelRefVars == <<rf_cell, rf_vec, rf_strong, rf_freed, rd_iter, rd_pos, rd_ref,
                  rd_read>>

VARIABLES
    \* A Counter read while it is added to: the two accumulators of Value.
    cv_f64, cv_u64,
    \* Per thread: where it is inside Counter::add's float path ("idle",
    \* "get", "cas"), the count it adds there and the f64 it read in the
    \* update loop.
    cv_pc, cv_count, cv_old,
    \* History: the number of additions made, the total of the additions that
    \* have started and the total of those that have returned.
    cv_calls, cv_started, cv_completed,
    \* A thread inside Counter::value(): its position ("idle", "u64", "done"),
    \* the f64 it loaded and the value returned; and, as history, the total of
    \* the additions that had returned when the call started and the total of
    \* those that had started when it returned.
    cr_pc, cr_f64, cr_value, cr_low, cr_high

counterReadVars == <<cv_f64, cv_u64, cv_pc, cv_count, cv_old, cv_calls,
                     cv_started, cv_completed, cr_pc, cr_f64, cr_value, cr_low,
                     cr_high>>

VARIABLES
    \* A metric builder: which builder it is ("counter", "histogram",
    \* "summary"), its namespace (NoName for None) and name, the label names
    \* given to label(), the bucket bounds or quantiles given to bucket() /
    \* quantile(), and the registries given to registry().
    bf_kind, bf_namespace, bf_name, bf_labels, bf_values, bf_registries,
    \* finish(): "builder" before any call, "register" inside the loop over
    \* the registries, then what the call returned ("Ok", "InvalidInput");
    \* the position in that loop; the number of calls made.
    bf_pc, bf_i, bf_calls,
    \* Per registry: the collectors in its channel and those its gatherer has
    \* received.
    bf_channel, bf_collectors,
    \* History: per registry, the number of collectors it held (channel and
    \* gatherer) when the last finish() was called.
    bf_before,
    \* The Result of the checks of the last finish(): "Ok" or "InvalidInput"
    \* ("none" before any call).
    bf_checked

builderVars == <<bf_kind, bf_namespace, bf_name, bf_labels, bf_values,
                 bf_registries, bf_pc, bf_i, bf_calls, bf_channel,
                 bf_collectors, bf_before, bf_checked>>

VARIABLES
    \* A Gatherer whose gather() is watched to its end.  Per collector ever
    \* registered: the strong count of its metric (1 while the application
    \* holds it, 0 after).
    gt_strong,
    \* The channel from the Registry, and Gatherer.collectors.
    gt_channel, gt_collectors,
    \* gather(): "idle", "drain" (first loop), "poll" (second loop); its
    \* index i.
    gt_pc, gt_i,
    \* History: the polls the current gather() has made, and the number of
    \* collectors in the list when its polling loop began.
    gt_polls, gt_live0

gatherVars == <<gt_strong, gt_channel, gt_collectors, gt_pc, gt_i, gt_polls,
                gt_live0>>

\* No read of the histogram is in progress.
HistReadOff ==
    /\ hr_pc = "idle"
    /\ hr_i = 1
    /\ hr_cumulative_count = 0
    /\ hr_count = 0
    /\ hr_count0 = 0

\* What an action on one metric leaves alone: every other metric.
OtherThanCounter ==
    UNCHANGED <<gaugeVars, histogramVars, summaryVars, labelVars, iterVars,
                registryVars, aggregateVars, aggBucketsVars, timestampVars,
                observedVars, renderVars, updateVars, histReadVars,
                sumObserveVars, labelsConcVars, labelRefVars, counterReadVars,
                builderVars, gatherVars>>
OtherThanGauge ==
    UNCHANGED <<counterVars, histogramVars, summaryVars, labelVars, iterVars,
                registryVars, aggregateVars, aggBucketsVars, timestampVars,
                observedVars, renderVars, updateVars, histReadVars,
                sumObserveVars, labelsConcVars, labelRefVars, counterReadVars,
                builderVars, gatherVars>>
OtherThanHistogram ==
    UNCHANGED <<counterVars, gaugeVars, summaryVars, labelVars, iterVars,
                registryVars, aggregateVars, aggBucketsVars, timestampVars,
                observedVars, renderVars, updateVars, histReadVars,
                sumObserveVars, labelsConcVars, labelRefVars, counterReadVars,
                builderVars, gatherVars>>
OtherThanSummary ==
    UNCHANGED <<counterVars, gaugeVars, histogramVars, labelVars, iterVars,
                registryVars, aggregateVars, aggBucketsVars, timestampVars,
                observedVars, renderVars, updateVars, histReadVars,
                sumObserveVars, labelsConcVars, labelRefVars, counterReadVars,
                builderVars, gatherVars>>
OtherThanLabels ==
    UNCHANGED <<counterVars, gaugeVars, histogramVars, summaryVars, iterVars,
                registryVars, aggregateVars, aggBucketsVars, timestampVars,
                observedVars, renderVars, updateVars, histReadVars,
                sumObserveVars, labelsConcVars, labelRefVars, counterReadVars,
                builderVars, gatherVars>>
OtherThanIter ==
    UNCHANGED <<counterVars, gaugeVars, histogramVars, summaryVars, labelVars,
                registryVars, aggregateVars, aggBucketsVars, timestampVars,
                observedVars, renderVars, updateVars, histReadVars,
                sumObserveVars, labelsConcVars, labelRefVars, counterReadVars,
                builderVars, gatherVars>>
OtherThanRegistry ==
    UNCHANGED <<counterVars, gaugeVars, histogramVars, summaryVars, labelVars,
                iterVars, aggregateVars, aggBucketsVars, timestampVars,
                observedVars, renderVars, updateVars, histReadVars,
                sumObserveVars, labelsConcVars, labelRefVars, counterReadVars,
                builderVars, gatherVars>>
OtherThanAggregate ==
    UNCHANGED <<counterVars, gaugeVars, histogramVars, summaryVars, labelVars,
                iterVars, registryVars, aggBucketsVars, timestampVars,
                observedVars, renderVars, updateVars, histReadVars,
                sumObserveVars, labelsConcVars, labelRefVars, counterReadVars,
                builderVars, gatherVars>>
OtherThanAggBuckets ==
    UNCHANGED <<counterVars, gaugeVars, histogramVars, summaryVars, labelVars,
                iterVars, registryVars, aggregateVars, timestampVars,
                observedVars, renderVars, updateVars, histReadVars,
                sumObserveVars, labelsConcVars, labelRefVars, counterReadVars,
                builderVars, gatherVars>>
OtherThanTimestamp ==
    UNCHANGED <<counterVars, gaugeVars, histogramVars, summaryVars, labelVars,
                iterVars, registryVars, aggregateVars, aggBucketsVars,
                observedVars, renderVars, updateVars, histReadVars,
                sumObserveVars, labelsConcVars, labelRefVars, counterReadVars,
                builderVars, gatherVars>>
OtherThanObserved ==
    UNCHANGED <<counterVars, gaugeVars, histogramVars, summaryVars, labelVars,
                iterVars, registryVars, aggregateVars, aggBucketsVars,
                timestampVars, renderVars, updateVars, histReadVars,
                sumObserveVars, labelsConcVars, labelRefVars, counterReadVars,
                builderVars, gatherVars>>
OtherThanRender ==
    UNCHANGED <<counterVars, gaugeVars, histogramVars, summaryVars, labelVars,
                iterVars, registryVars, aggregateVars, aggBucketsVars,
                timestampVars, observedVars, updateVars, histReadVars,
                sumObserveVars, labelsConcVars, labelRefVars, counterReadVars,
                builderVars, gatherVars>>
OtherThanUpdate ==
    UNCHANGED <<counterVars, gaugeVars, histogramVars, summaryVars, labelVars,
                iterVars, registryVars, aggregateVars, aggBucketsVars,
                timestampVars, observedVars, renderVars, histReadVars,
                sumObserveVars, labelsConcVars, labelRefVars, counterReadVars,
                builderVars, gatherVars>>
OtherThanHistRead ==
    UNCHANGED <<counterVars, gaugeVars, histogramVars, summaryVars, labelVars,
                iterVars, registryVars, aggregateVars, aggBucketsVars,
                timestampVars, observedVars, renderVars, updateVars,
                sumObserveVars, labelsConcVars, labelRefVars, counterReadVars,
                builderVars, gatherVars>>
OtherThanSumObserve ==
    UNCHANGED <<counterVars, gaugeVars, histogramVars, summaryVars, labelVars,
                iterVars, registryVars, aggregateVars, aggBucketsVars,
                timestampVars, observedVars, renderVars, updateVars,
                histReadVars, labelsConcVars, labelRefVars, counterReadVars,
                builderVars, gatherVars>>
OtherThanLabelsConc ==
    UNCHANGED <<counterVars, gaugeVars, histogramVars, summaryVars, labelVars,
                iterVars, registryVars, aggregateVars, aggBucketsVars,
                timestampVars, observedVars, renderVars, updateVars,
                histReadVars, sumObserveVars, labelRefVars, counterReadVars,
                builderVars, gatherVars>>
OtherThanLabelRef ==
    UNCHANGED <<counterVars, gaugeVars, histogramVars, summaryVars, labelVars,
                iterVars, registryVars, aggregateVars, aggBucketsVars,
                timestampVars, observedVars, renderVars, updateVars,
                histReadVars, sumObserveVars, labelsConcVars, counterReadVars,
                builderVars, gatherVars>>
OtherThanCounterRead ==
    UNCHANGED <<counterVars, gaugeVars, histogramVars, summaryVars, labelVars,
                iterVars, registryVars, aggregateVars, aggBucketsVars,
                timestampVars, observedVars, renderVars, updateVars,
                histReadVars, sumObserveVars, labelsConcVars, labelRefVars,
                builderVars, gatherVars>>
OtherThanBuilder ==
    UNCHANGED <<counterVars, gaugeVars, histogramVars, summaryVars, labelVars,
                iterVars, registryVars, aggregateVars, aggBucketsVars,
                timestampVars, observedVars, renderVars, updateVars,
                histReadVars, sumObserveVars, labelsConcVars, labelRefVars,
                counterReadVars, gatherVars>>
OtherThanGather ==
    UNCHANGED <<counterVars, gaugeVars, histogramVars, summaryVars, labelVars,
                iterVars, registryVars, aggregateVars, aggBucketsVars,
                timestampVars, observedVars, renderVars, updateVars,
                histReadVars, sumObserveVars, labelsConcVars, labelRefVars,
                counterReadVars, builderVars>>
OtherThanSummaryObserve ==
    UNCHANGED <<counterVars, gaugeVars, histogramVars, labelVars, iterVars,
                registryVars, aggregateVars, aggBucketsVars, timestampVars,
                observedVars, renderVars, updateVars, histReadVars,
                labelsConcVars, labelRefVars, counterReadVars, builderVars,
                gatherVars>>

vars == <<counterVars, gaugeVars, histogramVars, summaryVars, labelVars,
          iterVars, registryVars, aggregateVars, aggBucketsVars,
          timestampVars, observedVars, renderVars, updateVars, histReadVars,
          sumObserveVars, labelsConcVars, labelRefVars, counterReadVars,
          builderVars, gatherVars>>

Threads == 1 .. NumThreads

\* Gatherer::new: nothing registered, no gather() running.
GatherInit ==
    /\ gt_strong = << >>
    /\ gt_channel = << >>
    /\ gt_collectors = << >>
    /\ gt_pc = "idle"
    /\ gt_i = 0
    /\ gt_polls = 0
    /\ gt_live0 = 0

\* The registries a builder can be given.
MaxRegistries == 2
RegistryIds == 1 .. MaxRegistries

\* No builder in use.
BuilderOff ==
    /\ bf_kind = "counter"
    /\ bf_namespace = << >>
    /\ bf_name = << >>
    /\ bf_labels = << >>
    /\ bf_values = << >>
    /\ bf_registries = << >>
    /\ bf_pc = "builder"
    /\ bf_i = 0
    /\ bf_calls = 0
    /\ bf_channel = [r \in RegistryIds |-> << >>]
    /\ bf_collectors = [r \in RegistryIds |-> << >>]
    /\ bf_before = [r \in RegistryIds |-> 0]
    /\ bf_checked = "none"

\* A counter at zero that nobody reads: Value::new.
CounterReadInit ==
    /\ cv_f64 = 0
    /\ cv_u64 = 0
    /\ cv_pc = [t \in Threads |-> "idle"]
    /\ cv_count = [t \in Threads |-> 0]
    /\ cv_old = [t \in Threads |-> 0]
    /\ cv_calls = 0
    /\ cv_started = 0
    /\ cv_completed = 0
    /\ cr_pc = "idle"
    /\ cr_f64 = 0
    /\ cr_value = 0
    /\ cr_low = 0
    /\ cr_high = 0

\* No reader holds a reference into the labels.
LabelRefOff ==
    /\ rf_cell = 1
    /\ rf_vec = << << >> >>
    /\ rf_strong = <<1>>
    /\ rf_freed = {}
    /\ rd_iter = 0
    /\ rd_pos = 0
    /\ rd_ref = << >>
    /\ rd_read = << >>

\* No thread edits labels through a clone.
LabelsConcOff ==
    /\ lc_labels = << >>
    /\ lc_ptr = 0
    /\ lc_pc = [t \in Threads |-> "idle"]
    /\ lc_op = [t \in Threads |-> << >>]
    /\ lc_old = [t \in Threads |-> << >>]
    /\ lc_old_ptr = [t \in Threads |-> 0]
    /\ lc_calls = 0
    /\ lc_retried = [t \in Threads |-> FALSE]
    /\ lc_want = << >>

\* No thread is inside Summary::observe.
SumObserveOff ==
    /\ so_pc = [t \in Threads |-> "idle"]
    /\ so_now = [t \in Threads |-> 0]
    /\ so_value = [t \in Threads |-> 0]
    /\ so_old = [t \in Threads |-> 0]

\* --------------------------------------------------- Counter (counter.rs)

\* Arguments given to Counter::add: negative, fractional, integral, finite but
\* beyond u64::MAX, infinite and NaN.
TooBig == 2 * Modulus * Scale
F64Args == {0 - Half, Half, One, TooBig, PInf, NaN}
\* Arguments given to Counter::add_u64.
U64Args == {2, U64Max}

CounterInit ==
    /\ counter_f64 = 0
    /\ counter_u64 = 0
    /\ c_pc = [t \in Threads |-> "idle"]
    /\ c_count = [t \in Threads |-> 0]
    /\ c_old = [t \in Threads |-> 0]
    /\ c_last = <<NoVal, "none", 0>>
    /\ c_calls = 0
    /\ c_callers = {}
    /\ c_total = 0
    /\ c_onlyInt = TRUE
    /\ rd_pc = "idle"
    /\ rd_f64 = 0
    /\ rd_last = NoVal

\* Value::get, were it to read both accumulators at once.
Value_get(f, u) == FAdd(f, U64ToF64(u))

\* The guard of Counter::add: track_assert!(count >= 0.0, InvalidInput).
Counter_add_acceptsAll(count) == TRUE
Counter_add_accepts(count) == FGe(count, 0)

\* The test of Value::add: floor and ceil agree once cast to u64.
Value_add_isIntegral(count) == CastU64(FFloor(count)) = CastU64(FCeil(count))

\* The closure AtomicF64::add hands to the update loop.
AtomicF64_add_f(v, count) == FAdd(v, count)

\* History of a call by thread t.
Called(t) ==
    /\ c_calls < MaxCalls
    /\ c_calls' = c_calls + 1
    /\ c_callers' = c_callers \cup {t}

\* History of the integer-only calls.
CountInt(n) ==
    /\ c_total' = IF c_onlyInt THEN c_total + n ELSE 0
    /\ UNCHANGED c_onlyInt

CountOther ==
    /\ c_total' = 0
    /\ c_onlyInt' = FALSE

\* Counter::increment: Value::increment, one fetch_add of 1.
Counter_increment(t) ==
    /\ c_pc[t] = "idle"
    /\ Called(t)
    /\ counter_u64' = FetchAdd(counter_u64, 1)
    /\ CountInt(1)
    /\ UNCHANGED <<counter_f64, c_pc, c_count, c_old, c_last, rd_pc, rd_f64, rd_last>>
    /\ OtherThanCounter

\* Counter::add_u64: Value::add_u64, one fetch_add of count.
Counter_add_u64(t, count) ==
    /\ c_pc[t] = "idle"
    /\ Called(t)
    /\ counter_u64' = FetchAdd(counter_u64, count)
    /\ CountInt(count)
    /\ UNCHANGED <<counter_f64, c_pc, c_count, c_old, c_last, rd_pc, rd_f64, rd_last>>
    /\ OtherThanCounter

\* Counter::add with a count the guard refuses: Err(InvalidInput).
Counter_add_rejected(t, count) ==
    /\ c_pc[t] = "idle"
    /\ Called(t)
    /\ ~Counter_add_accepts(count)
    /\ c_last' = <<count, "InvalidInput", c_calls'>>
    /\ UNCHANGED <<counter_f64, counter_u64, c_pc, c_count, c_old, c_total,
                   c_onlyInt, rd_pc, rd_f64, rd_last>>
    /\ OtherThanCounter

\* Counter::add, integer path of Value::add: fetch_add of floor as u64.
Counter_add_integral(t, count) ==
    /\ c_pc[t] = "idle"
    /\ Called(t)
    /\ Counter_add_accepts(count)
    /\ Value_add_isIntegral(count)
    /\ counter_u64' = FetchAdd(counter_u64, CastU64(FFloor(count)))
    /\ c_last' = <<count, "Ok", c_calls'>>
    /\ CountOther
    /\ UNCHANGED <<counter_f64, c_pc, c_count, c_old, rd_pc, rd_f64, rd_last>>
    /\ OtherThanCounter

\* Counter::add, float path of Value::add: enters the update loop on f64.
Counter_add_fractional(t, count) ==
    /\ c_pc[t] = "idle"
    /\ Called(t)
    /\ Counter_add_accepts(count)
    /\ ~Value_add_isIntegral(count)
    /\ c_pc' = [c_pc EXCEPT ![t] = "f64_get"]
    /\ c_count' = [c_count EXCEPT ![t] = count]
    /\ CountOther
    /\ UNCHANGED <<counter_f64, counter_u64, c_old, c_last, rd_pc, rd_f64, rd_last>>
    /\ OtherThanCounter

\* Atomic64::update on Value.f64: `let old = self.get()`.
Counter_f64_get(t) ==
    /\ c_pc[t] = "f64_get"
    /\ c_old' = [c_old EXCEPT ![t] = counter_f64]
    /\ c_pc' = [c_pc EXCEPT ![t] = "f64_cas"]
    /\ UNCHANGED <<counter_f64, counter_u64, c_count, c_last, c_calls, c_callers,
                   c_total, c_onlyInt, rd_pc, rd_f64, rd_last>>
    /\ OtherThanCounter

\* Atomic64::update on Value.f64: the compare_and_swap; a failure loops, a
\* success ends Counter::add with Ok.
Counter_f64_cas(t) ==
    /\ c_pc[t] = "f64_cas"
    /\ IF CasSucceeds(counter_f64, c_old[t])
       THEN /\ counter_f64' = AtomicF64_add_f(c_old[t], c_count[t])
            /\ c_pc' = [c_pc EXCEPT ![t] = "idle"]
            /\ c_last' = <<c_count[t], "Ok", c_calls>>
            /\ c_count' = [c_count EXCEPT ![t] = 0]
            /\ c_old' = [c_old EXCEPT ![t] = 0]
       ELSE /\ c_pc' = [c_pc EXCEPT ![t] = "f64_get"]
            /\ UNCHANGED <<counter_f64, c_last, c_count, c_old>>
    /\ UNCHANGED <<counter_u64, c_calls, c_callers, c_total, c_onlyInt,
                   rd_pc, rd_f64, rd_last>>
    /\ OtherThanCounter

\* Counter::value, first load of Value::get: self.f64.get().
Counter_value_f64 ==
    /\ rd_pc = "idle"
    /\ rd_f64' = counter_f64
    /\ rd_pc' = "u64"
    /\ UNCHANGED <<counter_f64, counter_u64, c_pc, c_count, c_old, c_last, c_calls,
                   c_callers, c_total, c_onlyInt, rd_last>>
    /\ OtherThanCounter

\* Counter::value, second load of Value::get: self.u64.get() as f64, and the sum.
Counter_value_u64 ==
    /\ rd_pc = "u64"
    /\ rd_last' = Value_get(rd_f64, counter_u64)
    /\ rd_pc' = "idle"
    /\ rd_f64' = 0
    /\ UNCHANGED <<counter_f64, counter_u64, c_pc, c_count, c_old, c_last, c_calls,
                   c_callers, c_total, c_onlyInt>>
    /\ OtherThanCounter


\* ------------------------------------- Gauge (gauge.rs) on Atomic64<f64>

\* Values given to GaugeBuilder::initial_value and to Gauge::set.
GaugeValues == {0, Half, One + Half}
\* Counts given to Gauge::add: Gauge::increment and Gauge::decrement.
GaugeCounts == {One, 0 - One}

GaugeInit ==
    /\ gauge_value \in GaugeValues
    /\ g_pc = [t \in Threads |-> "idle"]
    /\ g_count = [t \in Threads |-> 0]
    /\ g_old = [t \in Threads |-> 0]
    /\ g_calls = 0
    /\ g_base = gauge_value
    /\ g_net = 0
    /\ g_lastWrite = "new"
    /\ g_lost = {}
    /\ tp_pc = [t \in Threads |-> "idle"]

GaugeOff ==
    /\ gauge_value = 0
    /\ g_pc = [t \in Threads |-> "idle"]
    /\ g_count = [t \in Threads |-> 0]
    /\ g_old = [t \in Threads |-> 0]
    /\ g_calls = 0
    /\ g_base = 0
    /\ g_net = 0
    /\ g_lastWrite = "new"
    /\ g_lost = {}
    /\ tp_pc = [t \in Threads |-> "idle"]

\* The closure of Gauge::add: |v| v + count.
Gauge_add_f(v, count) == FAdd(v, count)

\* Gauge::add (and increment, decrement): enters Atomic64::update.
Gauge_add(t, count) ==
    /\ g_pc[t] = "idle"
    /\ g_calls < MaxCalls
    /\ g_calls' = g_calls + 1
    /\ g_pc' = [g_pc EXCEPT ![t] = "get"]
    /\ g_count' = [g_count EXCEPT ![t] = count]
    /\ UNCHANGED <<gauge_value, g_old, g_base, g_net, g_lastWrite, g_lost, tp_pc>>
    /\ OtherThanGauge

\* Atomic64::update: `let old = self.get()`.
Atomic64_update_get(t) ==
    /\ g_pc[t] = "get"
    /\ g_old' = [g_old EXCEPT ![t] = gauge_value]
    /\ g_pc' = [g_pc EXCEPT ![t] = "cas"]
    /\ UNCHANGED <<gauge_value, g_count, g_calls, g_base, g_net, g_lastWrite, g_lost,
                   tp_pc>>
    /\ OtherThanGauge

\* Atomic64::update: `let new = f(old)` and the compare_and_swap(old, new);
\* the loop breaks when the swap took place and starts over when not.
Atomic64_update_cas(t) ==
    /\ g_pc[t] = "cas"
    /\ IF CasSucceeds(gauge_value, g_old[t])
       THEN /\ gauge_value' = Gauge_add_f(g_old[t], g_count[t])
            /\ g_pc' = [g_pc EXCEPT ![t] = "idle"]
            /\ g_net' = g_net + g_count[t]
            /\ g_lastWrite' = "update"
            /\ g_count' = [g_count EXCEPT ![t] = 0]
            /\ g_old' = [g_old EXCEPT ![t] = 0]
            /\ UNCHANGED g_lost
       ELSE /\ g_pc' = [g_pc EXCEPT ![t] = "get"]
            /\ g_lost' = g_lost \cup {g_lastWrite}
            /\ UNCHANGED <<gauge_value, g_net, g_lastWrite, g_count, g_old>>
    /\ UNCHANGED <<g_calls, g_base, tp_pc>>
    /\ OtherThanGauge

\* Gauge::set: Atomic64::set, one store.
Gauge_set(t, value) ==
    /\ g_pc[t] = "idle"
    /\ g_calls < MaxCalls
    /\ g_calls' = g_calls + 1
    /\ gauge_value' = value
    /\ g_base' = value
    /\ g_net' = 0
    /\ g_lastWrite' = "set"
    /\ UNCHANGED <<g_pc, g_count, g_old, g_lost, tp_pc>>
    /\ OtherThanGauge

\* A gauge built with the default initial value 0.0.
InprogressInit ==
    /\ gauge_value = 0
    /\ g_pc = [t \in Threads |-> "idle"]
    /\ g_count = [t \in Threads |-> 0]
    /\ g_old = [t \in Threads |-> 0]
    /\ g_calls = 0
    /\ g_base = 0
    /\ g_net = 0
    /\ g_lastWrite = "new"
    /\ g_lost = {}
    /\ tp_pc = [t \in Threads |-> "idle"]

\* Gauge::track_inprogress is called: self.increment() enters
\* Atomic64::update.
Gauge_track_inprogress(t) ==
    /\ tp_pc[t] = "idle"
    /\ g_pc[t] = "idle"
    /\ g_calls < MaxCalls
    /\ g_calls' = g_calls + 1
    /\ tp_pc' = [tp_pc EXCEPT ![t] = "increment"]
    /\ g_pc' = [g_pc EXCEPT ![t] = "get"]
    /\ g_count' = [g_count EXCEPT ![t] = One]
    /\ UNCHANGED <<gauge_value, g_old, g_base, g_net, g_lastWrite, g_lost>>
    /\ OtherThanGauge

\* Gauge::track_inprogress: increment has returned, f is called.
Gauge_track_inprogress_call(t) ==
    /\ tp_pc[t] = "increment"
    /\ g_pc[t] = "idle"
    /\ tp_pc' = [tp_pc EXCEPT ![t] = "f"]
    /\ UNCHANGED <<gauge_value, g_pc, g_count, g_old, g_calls, g_base, g_net,
                   g_lastWrite, g_lost>>
    /\ OtherThanGauge

\* Gauge::track_inprogress: f has returned, self.decrement() enters
\* Atomic64::update.
Gauge_track_inprogress_returned(t) ==
    /\ tp_pc[t] = "f"
    /\ g_calls < MaxCalls
    /\ g_calls' = g_calls + 1
    /\ tp_pc' = [tp_pc EXCEPT ![t] = "decrement"]
    /\ g_pc' = [g_pc EXCEPT ![t] = "get"]
    /\ g_count' = [g_count EXCEPT ![t] = 0 - One]
    /\ UNCHANGED <<gauge_value, g_old, g_base, g_net, g_lastWrite, g_lost>>
    /\ OtherThanGauge

\* Gauge::track_inprogress: f has panicked; the unwinding leaves
\* track_inprogress at the call of f, nothing of it runs any more.
Gauge_track_inprogress_unwound(t) ==
    /\ tp_pc[t] = "f"
    /\ tp_pc' = [tp_pc EXCEPT ![t] = "idle"]
    /\ UNCHANGED <<gauge_value, g_pc, g_count, g_old, g_calls, g_base, g_net,
                   g_lastWrite, g_lost>>
    /\ OtherThanGauge

\* Gauge::track_inprogress: decrement has returned, the result is returned.
Gauge_track_inprogress_return(t) ==
    /\ tp_pc[t] = "decrement"
    /\ g_pc[t] = "idle"
    /\ tp_pc' = [tp_pc EXCEPT ![t] = "idle"]
    /\ UNCHANGED <<gauge_value, g_pc, g_count, g_old, g_calls, g_base, g_net,
                   g_lastWrite, g_lost>>
    /\ OtherThanGauge

\* ------------------------------------------- Histogram (histogram.rs)

\* The most calls of HistogramBuilder::bucket on one builder.
MaxBuckets == 2

\* Upper bounds given to HistogramBuilder::bucket.
BucketArgs == {10 * One, 20 * One, NaN}
\* Values given to Histogram::observe.
ObserveArgs == {7 * One, 10 * One, 12 * One, 52 * One, NaN}
ObservedValues == {v \in ObserveArgs : ~IsNaN(v)}

\* HistogramBuilder::new: the builder starts with the +Inf bucket.
HistogramBuilder_newEmpty == << >>
HistogramBuilder_new == <<PInf>>

HistogramInit ==
    /\ hb_bounds = HistogramBuilder_new
    /\ hist_state = "builder"
    /\ hist_bounds = << >>
    /\ hist_buckets = << >>
    /\ hist_count = 0
    /\ hist_sum = 0
    /\ h_pc = [t \in Threads |-> "idle"]
    /\ h_value = [t \in Threads |-> 0]
    /\ h_old = [t \in Threads |-> 0]
    /\ h_calls = 0
    /\ h_seen = [v \in ObservedValues |-> 0]

\* No histogram is being built.
HistogramOff ==
    /\ hb_bounds = << >>
    /\ hist_state = "none"
    /\ hist_bounds = << >>
    /\ hist_buckets = << >>
    /\ hist_count = 0
    /\ hist_sum = 0
    /\ h_pc = [t \in Threads |-> "idle"]
    /\ h_value = [t \in Threads |-> 0]
    /\ h_old = [t \in Threads |-> 0]
    /\ h_calls = 0
    /\ h_seen = [v \in ObservedValues |-> 0]

\* HistogramBuilder::with_linear_buckets: start + i as f64 * width for
\* i in 0..count, each given to bucket().
LinearBuckets(start, width, count) ==
    [i \in 1 .. count |-> FAdd(start, FMul(U64ToF64(i - 1), width))]

\* The sort of HistogramBuilder::finish: a stable sort by partial_cmp of the
\* upper bounds, none of which is a NaN.
RECURSIVE SortBounds(_)
SortBounds(s) ==
    IF Len(s) <= 1 THEN s
    ELSE LET x == s[Len(s)]
             rest == SortBounds(SubSeq(s, 1, Len(s) - 1))
             k == Cardinality({i \in 1 .. Len(rest) : FLe(rest[i], x)})
         IN  SubSeq(rest, 1, k) \o <<x>> \o SubSeq(rest, k + 1, Len(rest))

\* slice::binary_search_by with the comparison of Histogram::observe.  The
\* indices it may return, counted from 1: Ok(i) for a bucket whose bound
\* equals the value, any one of them when several do; else Err(i), the
\* position at which the value could be inserted.
InsertionPoint(bounds, value) ==
    Cardinality({i \in 1 .. Len(bounds) : FLt(bounds[i], value)}) + 1

BinarySearchExclusive(bounds, value) ==
    {Cardinality({i \in 1 .. Len(bounds) : FLe(bounds[i], value)}) + 1}
BinarySearch(bounds, value) ==
    LET found == {i \in 1 .. Len(bounds) : bounds[i] = value}
    IN  IF found # {} THEN found ELSE {InsertionPoint(bounds, value)}

\* HistogramBuilder::with_linear_buckets(name, 0.0, 10.0, 5), as in the
\* crate's own test.
HistogramBuilder_with_linear_buckets ==
    /\ hist_state = "builder"
    /\ hb_bounds = HistogramBuilder_new
    /\ hb_bounds' = hb_bounds \o LinearBuckets(0, 10 * One, 5)
    /\ UNCHANGED <<hist_state, hist_bounds, hist_buckets, hist_count, hist_sum,
                   h_pc, h_value, h_old, h_calls, h_seen>>
    /\ OtherThanHistogram

\* HistogramBuilder::bucket: pushes the bound, in call order.
HistogramBuilder_bucket(upper_bound) ==
    /\ hist_state = "builder"
    /\ Len(hb_bounds) <= MaxBuckets
    /\ hb_bounds' = Append(hb_bounds, upper_bound)
    /\ UNCHANGED <<hist_state, hist_bounds, hist_buckets, hist_count, hist_sum,
                   h_pc, h_value, h_old, h_calls, h_seen>>
    /\ OtherThanHistogram

\* HistogramBuilder::finish: Bucket::new refuses a NaN bound; the buckets are
\* sorted and start at zero, as do count and sum.
HistogramBuilder_finish ==
    /\ hist_state = "builder"
    /\ IF \E i \in 1 .. Len(hb_bounds) : IsNaN(hb_bounds[i])
       THEN /\ hist_state' = "InvalidInput"
            /\ UNCHANGED <<hist_bounds, hist_buckets>>
       ELSE /\ hist_state' = "ok"
            /\ hist_bounds' = SortBounds(hb_bounds)
            /\ hist_buckets' = [i \in 1 .. Len(hb_bounds) |-> 0]
    /\ UNCHANGED <<hb_bounds, hist_count, hist_sum, h_pc, h_value, h_old,
                   h_calls, h_seen>>
    /\ OtherThanHistogram

\* Histogram::observe with a NaN: the assert! panics before anything is
\* touched; the thread is gone.
Histogram_observe_nan(t, value) ==
    /\ hist_state = "ok"
    /\ h_pc[t] = "idle"
    /\ h_calls < MaxCalls
    /\ IsNaN(value)
    /\ h_calls' = h_calls + 1
    /\ h_pc' = [h_pc EXCEPT ![t] = "panicked"]
    /\ UNCHANGED <<hb_bounds, hist_state, hist_bounds, hist_buckets, hist_count,
                   hist_sum, h_value, h_old, h_seen>>
    /\ OtherThanHistogram

\* Histogram::observe, up to `self.0.buckets.get(i).map(|b| b.increment())`:
\* i is what the binary search returned; there is nothing to increment when
\* i is past the last bucket.
Histogram_observe(t, value) ==
    /\ hist_state = "ok"
    /\ h_pc[t] = "idle"
    /\ h_calls < MaxCalls
    /\ ~IsNaN(value)
    /\ \E i \in BinarySearch(hist_bounds, value) :
          hist_buckets' = IF i \in DOMAIN hist_buckets
                          THEN [hist_buckets EXCEPT ![i] = FetchAdd(@, 1)]
                          ELSE hist_buckets
    /\ h_calls' = h_calls + 1
    /\ h_pc' = [h_pc EXCEPT ![t] = "count"]
    /\ h_value' = [h_value EXCEPT ![t] = value]
    /\ h_seen' = [h_seen EXCEPT ![value] = @ + 1]
    /\ UNCHANGED <<hb_bounds, hist_state, hist_bounds, hist_count, hist_sum, h_old>>
    /\ OtherThanHistogram

\* Histogram::observe: `self.0.count.inc()`.
Histogram_observe_count(t) ==
    /\ h_pc[t] = "count"
    /\ hist_count' = FetchAdd(hist_count, 1)
    /\ h_pc' = [h_pc EXCEPT ![t] = "get"]
    /\ UNCHANGED <<hb_bounds, hist_state, hist_bounds, hist_buckets, hist_sum,
                   h_value, h_old, h_calls, h_seen>>
    /\ OtherThanHistogram

\* Histogram::observe: `self.0.sum.update(|v| v + value)`, the read of the
\* update loop.
Histogram_sum_get(t) ==
    /\ h_pc[t] = "get"
    /\ h_old' = [h_old EXCEPT ![t] = hist_sum]
    /\ h_pc' = [h_pc EXCEPT ![t] = "cas"]
    /\ UNCHANGED <<hb_bounds, hist_state, hist_bounds, hist_buckets, hist_count,
                   hist_sum, h_value, h_calls, h_seen>>
    /\ OtherThanHistogram

\* ... and its compare_and_swap; observe returns when the swap took place.
Histogram_sum_cas(t) ==
    /\ h_pc[t] = "cas"
    /\ IF CasSucceeds(hist_sum, h_old[t])
       THEN /\ hist_sum' = FAdd(h_old[t], h_value[t])
            /\ h_pc' = [h_pc EXCEPT ![t] = "idle"]
            /\ h_value' = [h_value EXCEPT ![t] = 0]
            /\ h_old' = [h_old EXCEPT ![t] = 0]
       ELSE /\ h_pc' = [h_pc EXCEPT ![t] = "get"]
            /\ UNCHANGED <<hist_sum, h_value, h_old>>
    /\ UNCHANGED <<hb_bounds, hist_state, hist_bounds, hist_buckets, hist_count,
                   h_calls, h_seen>>
    /\ OtherThanHistogram

\* Bucket::count and Bucket::upper_bound of every bucket, as
\* CumulativeBuckets::next yields them: the running sum of the counts.
RECURSIVE CumulativeCount(_, _)
CumulativeCount(buckets, i) ==
    IF i = 0 THEN 0 ELSE (CumulativeCount(buckets, i - 1) + buckets[i]) % Modulus

CumulativeBuckets(bounds, buckets) ==
    [i \in 1 .. Len(buckets) |-> <<bounds[i], CumulativeCount(buckets, i)>>]

\* No Histogram::observe is in progress.
HistogramQuiescent ==
    /\ hist_state = "ok"
    /\ \A t \in Threads : h_pc[t] \in {"idle", "panicked"}
\* ------------------------------------------------- Summary (summary.rs)

\* The most calls of SummaryBuilder::quantile on one builder, and the last
\* tick of the clock.
MaxQuantiles == 2
MaxTime == 3

\* Quantiles given to SummaryBuilder::quantile, windows given to
\* SummaryBuilder::new (in ticks) and values given to Summary::observe.
QuantileArgs == {One \div 4, One, 2 * One}
SummaryWindows == {1, 2}
SummaryArgs == {7 * One, 10 * One, NaN}

Min(a, b) == IF a <= b THEN a ELSE b

\* SummaryBuilder::new(name, window): no quantiles yet.
SummaryInit ==
    /\ sb_quantiles = << >>
    /\ sum_state = "builder"
    /\ sum_window \in SummaryWindows
    /\ sum_quantiles = << >>
    /\ sum_samples = << >>
    /\ sum_count = 0
    /\ sum_sum = 0
    /\ s_now = 0
    /\ s_observed = 0
    /\ s_total = 0
    /\ s_last = "new"
    /\ s_result = << >>

\* No summary is being built.
SummaryOff ==
    /\ sb_quantiles = << >>
    /\ sum_state = "none"
    /\ sum_window = 0
    /\ sum_quantiles = << >>
    /\ sum_samples = << >>
    /\ sum_count = 0
    /\ sum_sum = 0
    /\ s_now = 0
    /\ s_observed = 0
    /\ s_total = 0
    /\ s_last = "new"
    /\ s_result = << >>

\* Quantile::new: accepts 0.0 <= quantile <= 1.0.
Quantile_new_accepts(quantile) == FLe(0, quantile) /\ FLe(quantile, One)

\* Summary::with_current_samples: the samples left once every front sample
\* older than the window has been popped.  duration_since is Err for a sample
\* from the future, which stops the loop.
KeepSamples(samples, now, window) == samples
RECURSIVE CurrentSamples(_, _, _)
CurrentSamples(samples, now, window) ==
    IF samples # << >> /\ now >= samples[1][1] /\ now - samples[1][1] > window
    THEN CurrentSamples(Tail(samples), now, window)
    ELSE samples

\* Summary::quantiles: the values of the samples that are not NaN ...
RECURSIVE NonNaNValues(_)
NonNaNValues(samples) ==
    IF samples = << >> THEN << >>
    ELSE IF IsNaN(samples[1][2]) THEN NonNaNValues(Tail(samples))
    ELSE <<samples[1][2]>> \o NonNaNValues(Tail(samples))

\* ... sorted by partial_cmp (the sort of HistogramBuilder::finish is the same).
SortValues(values) == SortBounds(values)

\* Summary::quantiles: the index, counted from 0, into the sorted samples.
Summary_quantiles_index(quantile, count) ==
    Min(count, CastU64(FFloor(FMul(quantile, U64ToF64(count)))))

\* SummaryBuilder::quantile: pushes the quantile, unchecked.
SummaryBuilder_quantile(quantile) ==
    /\ sum_state = "builder"
    /\ Len(sb_quantiles) < MaxQuantiles
    /\ sb_quantiles' = Append(sb_quantiles, quantile)
    /\ UNCHANGED <<sum_state, sum_window, sum_quantiles, sum_samples, sum_count,
                   sum_sum, s_now, s_observed, s_total, s_last, s_result>>
    /\ OtherThanSummary

\* SummaryBuilder::finish: Quantile::new of every quantile, then the sort.
SummaryBuilder_finish ==
    /\ sum_state = "builder"
    /\ IF \A i \in 1 .. Len(sb_quantiles) : Quantile_new_accepts(sb_quantiles[i])
       THEN /\ sum_state' = "ok"
            /\ sum_quantiles' = SortValues(sb_quantiles)
       ELSE /\ sum_state' = "InvalidInput"
            /\ UNCHANGED sum_quantiles
    /\ UNCHANGED <<sb_quantiles, sum_window, sum_samples, sum_count, sum_sum,
                   s_now, s_observed, s_total, s_last, s_result>>
    /\ OtherThanSummary

\* Time passes; the clock does not go backwards.
Clock_tick ==
    /\ sum_state = "ok"
    /\ s_now < MaxTime
    /\ s_now' = s_now + 1
    /\ s_last' = "tick"
    /\ s_result' = << >>
    /\ UNCHANGED <<sb_quantiles, sum_state, sum_window, sum_quantiles,
                   sum_samples, sum_count, sum_sum, s_observed, s_total>>
    /\ OtherThanSummary

\* Summary::observe, called by the one thread that uses the summary: the old
\* samples are dropped, (now, value) is pushed, count is incremented and the
\* value is added to sum (nobody else writes sum, so the update loop swaps
\* at its first attempt).
Summary_observe(value) ==
    /\ sum_state = "ok"
    /\ sum_count < MaxCalls
    /\ sum_samples' = Append(CurrentSamples(sum_samples, s_now, sum_window),
                             <<s_now, value>>)
    /\ sum_count' = FetchAdd(sum_count, 1)
    /\ sum_sum' = FAdd(sum_sum, value)
    /\ s_observed' = s_observed + 1
    /\ s_total' = FAdd(s_total, value)
    /\ s_last' = "observe"
    /\ s_result' = << >>
    /\ UNCHANGED <<sb_quantiles, sum_state, sum_window, sum_quantiles, s_now>>
    /\ OtherThanSummary

\* Summary::quantiles: the old samples are dropped, the values of the others
\* that are not NaN are sorted, and each quantile gets samples[index].  An
\* index that is not below the number of samples panics.
Summary_quantiles ==
    /\ sum_state = "ok"
    /\ LET current == CurrentSamples(sum_samples, s_now, sum_window)
           samples == SortValues(NonNaNValues(current))
           count == Len(samples)
           index(k) == Summary_quantiles_index(sum_quantiles[k], count)
       IN  /\ sum_samples' = current
           /\ s_last' = "quantiles"
           /\ IF count = 0
              THEN /\ s_result' = << >>
                   /\ UNCHANGED sum_state
              ELSE IF \E k \in DOMAIN sum_quantiles : index(k) >= count
              THEN /\ sum_state' = "panicked"
                   /\ s_result' = << >>
              ELSE /\ s_result' = [k \in DOMAIN sum_quantiles |->
                                      <<sum_quantiles[k], samples[index(k) + 1]>>]
                   /\ UNCHANGED sum_state
    /\ UNCHANGED <<sb_quantiles, sum_window, sum_quantiles, sum_count, sum_sum,
                   s_now, s_observed, s_total>>
    /\ OtherThanSummary

\* ------------------------------------------------------ Labels (label.rs)

\* The most calls of a builder's label() on one builder.
MaxLabels == 2

\* Strings are sequences of character codes, compared as Rust compares str:
\* byte by byte, a proper prefix first.
RECURSIVE StrLt(_, _)
StrLt(a, b) ==
    IF b = << >> THEN FALSE
    ELSE IF a = << >> THEN TRUE
    ELSE IF a[1] # b[1] THEN a[1] < b[1]
    ELSE StrLt(Tail(a), Tail(b))

\* "le", "lf", "l" and "__a"; the values "x" and "y".
NameLe == <<108, 101>>
NameLf == <<108, 102>>
NameL == <<108>>
NameReserved == <<95, 95, 97>>
LabelNames == {NameLe, NameLf, NameL, NameReserved}
LabelValues == {<<120>>, <<121>>}
\* Option::None for LabelsMut.reserved.
NoName == <<0>>

IsLetter(c) == (c >= 97 /\ c <= 122) \/ (c >= 65 /\ c <= 90)
IsDigit(c) == c >= 48 /\ c <= 57
Underscore == 95

\* Label::validate_name: [a-zA-Z_][a-zA-Z0-9_]*, not starting with "__".
Label_validate_name(name) ==
    /\ name # << >>
    /\ ~(Len(name) >= 2 /\ name[1] = Underscore /\ name[2] = Underscore)
    /\ IsLetter(name[1]) \/ name[1] = Underscore
    /\ \A i \in 2 .. Len(name) :
          IsLetter(name[i]) \/ IsDigit(name[i]) \/ name[i] = Underscore

\* The derived Ord of Label, and of (String, String): by name, then by value.
LabelLe(a, b) ==
    \/ StrLt(a[1], b[1])
    \/ a[1] = b[1] /\ (a[2] = b[2] \/ StrLt(a[2], b[2]))

\* Vec::sort of labels: stable.
RECURSIVE SortLabels(_)
SortLabels(s) ==
    IF Len(s) <= 1 THEN s
    ELSE LET x == s[Len(s)]
             rest == SortLabels(SubSeq(s, 1, Len(s) - 1))
             k == Cardinality({i \in 1 .. Len(rest) : LabelLe(rest[i], x)})
         IN  SubSeq(rest, 1, k) \o <<x>> \o SubSeq(rest, k + 1, Len(rest))

\* Vec::retain(|l| l.name != name), and the filter of LabelsMut::remove.
RetainOtherNames(s, name) == SelectSeq(s, LAMBDA l : l[1] # name)

\* HistogramBuilder::label on the builder's vector of (name, value) pairs:
\* retain, push, sort.
HistogramBuilder_label_f(s, name, value) ==
    SortLabels(Append(RetainOtherNames(s, name), <<name, value>>))

\* The closure of LabelsMut::insert: clone, retain, push, sort.
LabelsMut_insert_pushOnly(s, label) == SortLabels(Append(s, label))
LabelsMut_insert_f(s, label) ==
    SortLabels(Append(RetainOtherNames(s, label[1]), label))

\* The closure of LabelsMut::remove.
LabelsMut_remove_keepAll(s, name) == s
LabelsMut_remove_f(s, name) == RetainOtherNames(s, name)

\* The comparison of track_assert_ne!(self.reserved, Some(name)) in
\* LabelsMut::insert and of track_assert_ne!(name, "le") / (name, "quantile")
\* in the builders' finish.
IsReservedNever(name, reserved) == FALSE
IsReserved(name, reserved) == name = reserved

\* A histogram's builder without labels: LabelsMut::new(labels, Some("le")).
LabelsInit ==
    /\ lb_labels = << >>
    /\ lab_state = "builder"
    /\ labels = << >>
    /\ lab_reserved = NameLe
    /\ l_pc = [t \in Threads |-> "idle"]
    /\ l_op = [t \in Threads |-> << >>]
    /\ l_old = [t \in Threads |-> << >>]
    /\ l_current = [t \in Threads |-> FALSE]
    /\ l_calls = 0
    /\ l_replaced = FALSE
    /\ l_round = << >>

\* No labelled metric is being built.
LabelsOff ==
    /\ lb_labels = << >>
    /\ lab_state = "none"
    /\ labels = << >>
    /\ lab_reserved = NoName
    /\ l_pc = [t \in Threads |-> "idle"]
    /\ l_op = [t \in Threads |-> << >>]
    /\ l_old = [t \in Threads |-> << >>]
    /\ l_current = [t \in Threads |-> FALSE]
    /\ l_calls = 0
    /\ l_replaced = FALSE
    /\ l_round = << >>

\* HistogramBuilder::label (every builder's label() is this code): the name
\* is not checked yet.
HistogramBuilder_label(name, value) ==
    /\ lab_state = "builder"
    /\ Len(lb_labels) < MaxLabels
    /\ lb_labels' = HistogramBuilder_label_f(lb_labels, name, value)
    /\ UNCHANGED <<lab_state, labels, lab_reserved, l_pc, l_op, l_old,
                   l_current, l_calls, l_replaced, l_round>>
    /\ OtherThanLabels

\* HistogramBuilder::finish, as far as the labels go: "le" is refused,
\* Label::new checks every name, and Labels::new takes the vector as it is.
HistogramBuilder_finish_labels ==
    /\ lab_state = "builder"
    /\ IF \A i \in 1 .. Len(lb_labels) :
             /\ ~IsReserved(lb_labels[i][1], lab_reserved)
             /\ Label_validate_name(lb_labels[i][1])
       THEN /\ lab_state' = "ok"
            /\ labels' = lb_labels
       ELSE /\ lab_state' = "InvalidInput"
            /\ UNCHANGED labels
    /\ UNCHANGED <<lb_labels, lab_reserved, l_pc, l_op, l_old, l_current,
                   l_calls, l_replaced, l_round>>
    /\ OtherThanLabels

\* LabelsMut::insert that returns Err(InvalidInput): the name is the reserved
\* one, or Label::new refuses it.  Nothing is stored.
LabelsMut_insert_rejected(t, name, value) ==
    /\ lab_state = "ok"
    /\ l_pc[t] = "idle"
    /\ l_calls < MaxCalls
    /\ IsReserved(name, lab_reserved) \/ ~Label_validate_name(name)
    /\ l_calls' = l_calls + 1
    /\ UNCHANGED <<lb_labels, lab_state, labels, lab_reserved, l_pc, l_op,
                   l_old, l_current, l_replaced, l_round>>
    /\ OtherThanLabels

\* LabelsMut::insert with a name it accepts: enters AtomicImmut::update.
LabelsMut_insert(t, name, value) ==
    /\ lab_state = "ok"
    /\ l_pc[t] = "idle"
    /\ l_calls < MaxCalls
    /\ ~IsReserved(name, lab_reserved)
    /\ Label_validate_name(name)
    /\ l_calls' = l_calls + 1
    /\ l_pc' = [l_pc EXCEPT ![t] = "load"]
    /\ l_op' = [l_op EXCEPT ![t] = <<"insert", name, value>>]
    /\ UNCHANGED <<lb_labels, lab_state, labels, lab_reserved, l_old,
                   l_current, l_replaced, l_round>>
    /\ OtherThanLabels

\* LabelsMut::remove: enters AtomicImmut::update.
LabelsMut_remove(t, name) ==
    /\ lab_state = "ok"
    /\ l_pc[t] = "idle"
    /\ l_calls < MaxCalls
    /\ l_calls' = l_calls + 1
    /\ l_pc' = [l_pc EXCEPT ![t] = "load"]
    /\ l_op' = [l_op EXCEPT ![t] = <<"remove", name>>]
    /\ UNCHANGED <<lb_labels, lab_state, labels, lab_reserved, l_old,
                   l_current, l_replaced, l_round>>
    /\ OtherThanLabels

\* AtomicImmut::update: the load of the current vector.
AtomicImmut_update_load(t) ==
    /\ l_pc[t] = "load"
    /\ l_old' = [l_old EXCEPT ![t] = labels]
    /\ l_current' = [l_current EXCEPT ![t] = TRUE]
    /\ l_pc' = [l_pc EXCEPT ![t] = "cas"]
    /\ UNCHANGED <<lb_labels, lab_state, labels, lab_reserved, l_op, l_calls,
                   l_replaced, l_round>>
    /\ OtherThanLabels

\* AtomicImmut::update: the closure applied to the loaded vector, and the
\* compare-and-swap, which installs the result when the vector loaded is
\* still the current one; the loop starts over when it is not.
AtomicImmut_update_cas(t) ==
    /\ l_pc[t] = "cas"
    /\ IF l_current[t]
       THEN /\ labels' = IF l_op[t][1] = "insert"
                         THEN LabelsMut_insert_f(l_old[t], <<l_op[t][2], l_op[t][3]>>)
                         ELSE LabelsMut_remove_f(l_old[t], l_op[t][2])
            /\ l_current' = [u \in Threads |-> FALSE]
            /\ l_pc' = [l_pc EXCEPT ![t] = "idle"]
            /\ l_op' = [l_op EXCEPT ![t] = << >>]
            /\ l_old' = [l_old EXCEPT ![t] = << >>]
            /\ l_replaced' =
                  \/ l_replaced
                  \/ /\ l_op[t][1] = "insert"
                     /\ \E i \in DOMAIN labels :
                           labels[i][1] = l_op[t][2] /\ labels[i][2] # l_op[t][3]
            /\ l_round' =
                  IF l_op[t][1] = "insert"
                  THEN <<"inserted", labels, l_op[t][2]>>
                  ELSE IF /\ l_round # << >>
                          /\ l_round[1] = "inserted"
                          /\ l_round[3] = l_op[t][2]
                       THEN <<"removed", l_round[2], l_round[3]>>
                       ELSE << >>
       ELSE /\ l_pc' = [l_pc EXCEPT ![t] = "load"]
            /\ UNCHANGED <<labels, l_current, l_op, l_old, l_replaced,
                           l_round>>
    /\ UNCHANGED <<lb_labels, lab_state, lab_reserved, l_calls>>
    /\ OtherThanLabels

\* LabelsMut::clear: stores an empty vector.
LabelsMut_clear(t) ==
    /\ lab_state = "ok"
    /\ l_pc[t] = "idle"
    /\ l_calls < MaxCalls
    /\ l_calls' = l_calls + 1
    /\ labels' = << >>
    /\ l_current' = [u \in Threads |-> FALSE]
    /\ l_round' = << >>
    /\ UNCHANGED <<lb_labels, lab_state, lab_reserved, l_pc, l_op, l_old,
                   l_replaced>>
    /\ OtherThanLabels

\* ------------------------------------------- Labels::iter / Iter (label.rs)

\* "quantile", the name a summary reserves.
NameQuantile == <<113, 117, 97, 110, 116, 105, 108, 101>>

\* The names and values one reader and NumThreads writers use.
MutNames == {NameLe, NameQuantile, NameL}
MutValues == {<<120>>}

\* A builder of a histogram or of a summary, without labels:
\* LabelsMut::new(labels, Some("le")) or LabelsMut::new(labels, Some("quantile")).
LabelsMutInit ==
    /\ lb_labels = << >>
    /\ lab_state = "builder"
    /\ labels = << >>
    /\ lab_reserved \in {NameLe, NameQuantile}
    /\ l_pc = [t \in Threads |-> "idle"]
    /\ l_op = [t \in Threads |-> << >>]
    /\ l_old = [t \in Threads |-> << >>]
    /\ l_current = [t \in Threads |-> FALSE]
    /\ l_calls = 0
    /\ l_replaced = FALSE
    /\ l_round = << >>

\* No reader has called Labels::iter.
IterInit ==
    /\ it_pc = "idle"
    /\ it_labels = << >>
    /\ it_pos = 0
    /\ it_seen = << >>

\* The slice Iter.inner walks: the vector of the Arc that Labels::iter loaded
\* and that Iter.labels keeps alive, not the vector the AtomicImmut holds now.
Iter_innerLive(loaded, current) == current
Iter_inner(loaded, current) == loaded

\* Labels::iter: one load of the AtomicImmut.
Labels_iter ==
    /\ lab_state = "ok"
    /\ it_pc = "idle"
    /\ it_labels' = labels
    /\ it_pc' = "iterating"
    /\ UNCHANGED <<it_pos, it_seen>>
    /\ UNCHANGED labelVars
    /\ OtherThanIter

\* Iter::next: the next label of the slice, or None at its end.
Iter_next ==
    /\ it_pc = "iterating"
    /\ LET inner == Iter_inner(it_labels, labels)
       IN  IF it_pos < Len(inner)
           THEN /\ it_seen' = Append(it_seen, inner[it_pos + 1])
                /\ it_pos' = it_pos + 1
                /\ UNCHANGED it_pc
           ELSE /\ it_pc' = "done"
                /\ UNCHANGED <<it_pos, it_seen>>
    /\ UNCHANGED it_labels
    /\ UNCHANGED labelVars
    /\ OtherThanIter

\* ------------------------------ Registry and Gatherer (registry.rs, metric.rs)

\* The metrics the application builds, the handles it holds of one metric,
\* and the collectors it registers.
NumMetrics == 2
MaxHandles == 2
MaxCollectors == 3

MetricIds == 1 .. NumMetrics

\* Metric names "a" and "b"; a metric not built yet.
NameA == <<97>>
NameB == <<98>>
NoMetric == << >>

\* The <<name, kind>> of the metrics built.
MetricArgs == {<<NameA, "gauge">>, <<NameB, "counter">>, <<NameB, "gauge">>}

\* derive(PartialOrd, Ord) for MetricKind: the order of the variants.
MetricKind_ord(kind) ==
    CASE kind = "counter" -> 0
      [] kind = "gauge" -> 1
      [] kind = "summary" -> 2
      [] kind = "histogram" -> 3

\* (a.name(), a.kind()).cmp(&(b.name(), b.kind())) is Less or Equal, and Less.
KeyLe(a, b) ==
    \/ StrLt(a[1], b[1])
    \/ a[1] = b[1] /\ MetricKind_ord(a[2]) <= MetricKind_ord(b[2])
KeyLt(a, b) ==
    \/ StrLt(a[1], b[1])
    \/ a[1] = b[1] /\ MetricKind_ord(a[2]) < MetricKind_ord(b[2])

\* Metric::name and Metric::kind of the metric a handle points to.
Metric_key(m) == m_def[m]

\* metrics.sort_by(...): stable.
RECURSIVE SortMetrics(_)
SortMetrics(s) ==
    IF Len(s) <= 1 THEN s
    ELSE LET x == s[Len(s)]
             rest == SortMetrics(SubSeq(s, 1, Len(s) - 1))
             k == Cardinality({i \in 1 .. Len(rest) :
                                  KeyLe(Metric_key(rest[i]), Metric_key(x))})
         IN  SubSeq(rest, 1, k) \o <<x>> \o SubSeq(rest, k + 1, Len(rest))

\* MetricFamily::new, ::same_family and ::push; a family is
\* <<name, kind, members>>.
MetricFamily_new(m) == <<Metric_key(m)[1], Metric_key(m)[2], <<m>>>>
MetricFamily_same_familyByName(f, m) == f[1] = Metric_key(m)[1]
MetricFamily_same_family(f, m) == <<f[1], f[2]>> = Metric_key(m)
MetricFamily_push(f, m) ==
    IF f[2] = Metric_key(m)[2] THEN <<f[1], f[2], Append(f[3], m)>> ELSE f

\* The grouping loop of Gatherer::gather over the sorted metrics.
RECURSIVE GroupFamilies(_, _)
GroupFamilies(families, metrics) ==
    IF metrics = << >> THEN families
    ELSE LET metric == Head(metrics)
             n == Len(families)
         IN  IF ~(n > 0 /\ MetricFamily_same_family(families[n], metric))
             THEN GroupFamilies(Append(families, MetricFamily_new(metric)),
                                Tail(metrics))
             ELSE GroupFamilies(
                      [families EXCEPT ![n] = MetricFamily_push(families[n], metric)],
                      Tail(metrics))

\* The number of times x occurs in the sequence s.
Occurrences(s, x) == Cardinality({i \in 1 .. Len(s) : s[i] = x})

\* The members of all families of a MetricFamilies, in order.
RECURSIVE Members(_)
Members(families) ==
    IF families = << >> THEN << >>
    ELSE Head(families)[3] \o Members(Tail(families))

\* Arc::strong_count of a metric's Inner: the application's handles, the
\* handles in the metrics vector of a gather in progress, and the handles in
\* the MetricFamilies the application still holds.
StrongCountHandles(m) ==
    app_handles[m]
    + (IF ga_pc # "idle" THEN Occurrences(ga_metrics, m) ELSE 0)
StrongCount(m) ==
    app_handles[m]
    + (IF ga_pc # "idle" THEN Occurrences(ga_metrics, m) ELSE 0)
    + (IF snap_held THEN Occurrences(Members(ga_result), m) ELSE 0)

\* Weak::upgrade in CounterCollector::collect (and the other collectors).
Weak_upgradeAlways(strong) == TRUE
Weak_upgrade(strong) == strong > 0

\* mpsc::Sender::send on a channel whose receiver exists.
Sender_sendLost(queue, c) == queue
Sender_send(queue, c) == Append(queue, c)

\* Vec::swap_remove(i), with i counted from 1.
Vec_swap_remove(s, i) ==
    IF i = Len(s) THEN SubSeq(s, 1, Len(s) - 1)
    ELSE SubSeq([s EXCEPT ![i] = s[Len(s)]], 1, Len(s) - 1)

\* The index of Gatherer::gather's loop after a collector was removed: the
\* same slot again.
Gatherer_gather_skipIndex(i) == i + 1
Gatherer_gather_sameIndex(i) == i

\* Gatherer::new, and no metric built.
RegistryInit ==
    /\ m_def = [m \in MetricIds |-> NoMetric]
    /\ app_handles = [m \in MetricIds |-> 0]
    /\ col_metric = << >>
    /\ gatherer_alive = TRUE
    /\ channel = << >>
    /\ collectors = << >>
    /\ ga_pc = "idle"
    /\ ga_i = 0
    /\ ga_metrics = << >>
    /\ ga_result = << >>
    /\ snap_held = FALSE
    /\ reg_last = << >>
    /\ ga_polled = << >>
    /\ ga_live0 = << >>
    /\ ga_known = {}
    /\ removed = {}
    /\ afterDrop = [m \in MetricIds |-> 0]
    /\ freeStart = [m \in MetricIds |-> FALSE]

\* A builder's finish, without its registrations: the first handle of a new
\* metric.
Builder_finish(m, key) ==
    /\ m_def[m] = NoMetric
    /\ \A k \in 1 .. m - 1 : m_def[k] # NoMetric
    /\ m_def' = [m_def EXCEPT ![m] = key]
    /\ app_handles' = [app_handles EXCEPT ![m] = 1]
    /\ UNCHANGED <<col_metric, gatherer_alive, channel, collectors, ga_pc, ga_i,
                   ga_metrics, ga_result, snap_held, reg_last, ga_polled,
                   ga_live0, ga_known, removed, afterDrop, freeStart>>
    /\ OtherThanRegistry

\* Clone of a metric handle.
Metric_clone(m) ==
    /\ app_handles[m] >= 1
    /\ app_handles[m] < MaxHandles
    /\ app_handles' = [app_handles EXCEPT ![m] = @ + 1]
    /\ UNCHANGED <<m_def, col_metric, gatherer_alive, channel, collectors, ga_pc,
                   ga_i, ga_metrics, ga_result, snap_held, reg_last, ga_polled,
                   ga_live0, ga_known, removed, afterDrop, freeStart>>
    /\ OtherThanRegistry

\* Drop of a metric handle.
Metric_drop(m) ==
    /\ app_handles[m] >= 1
    /\ app_handles' = [app_handles EXCEPT ![m] = @ - 1]
    /\ UNCHANGED <<m_def, col_metric, gatherer_alive, channel, collectors, ga_pc,
                   ga_i, ga_metrics, ga_result, snap_held, reg_last, ga_polled,
                   ga_live0, ga_known, removed, afterDrop, freeStart>>
    /\ OtherThanRegistry

\* Registry::register(metric.collector()), in a builder's finish or by the
\* application: the result of send is dropped and nothing is returned.
Registry_register(m) ==
    /\ app_handles[m] >= 1
    /\ Len(col_metric) < MaxCollectors
    /\ col_metric' = Append(col_metric, m)
    /\ IF gatherer_alive
       THEN /\ channel' = Sender_send(channel, Len(col_metric) + 1)
            /\ reg_last' = <<"Ok", "()">>
       ELSE /\ UNCHANGED channel
            /\ reg_last' = <<"SendError", "()">>
    /\ UNCHANGED <<m_def, app_handles, gatherer_alive, collectors, ga_pc, ga_i,
                   ga_metrics, ga_result, snap_held, ga_polled, ga_live0,
                   ga_known, removed, afterDrop, freeStart>>
    /\ OtherThanRegistry

\* Gatherer::gather is called.
Gatherer_gather ==
    /\ gatherer_alive
    /\ ga_pc = "idle"
    /\ ga_pc' = "drain"
    /\ ga_i' = 0
    /\ ga_metrics' = << >>
    /\ ga_polled' = << >>
    /\ ga_live0' = << >>
    /\ ga_known' = (1 .. Len(col_metric)) \ removed
    /\ afterDrop' = [m \in MetricIds |->
                       IF m_def[m] # NoMetric /\ app_handles[m] = 0 /\ afterDrop[m] < 2
                       THEN afterDrop[m] + 1 ELSE afterDrop[m]]
    /\ freeStart' = [m \in MetricIds |->
                       freeStart[m] \/ (m_def[m] # NoMetric /\ StrongCount(m) = 0)]
    /\ UNCHANGED <<m_def, app_handles, col_metric, gatherer_alive, channel,
                   collectors, ga_result, snap_held, reg_last, removed>>
    /\ OtherThanRegistry

\* Gatherer::gather, one turn of `while let Ok(collector) = rx.try_recv()`.
Gatherer_gather_try_recv ==
    /\ ga_pc = "drain"
    /\ IF channel # << >>
       THEN /\ collectors' = Append(collectors, Head(channel))
            /\ channel' = Tail(channel)
            /\ UNCHANGED <<ga_pc, ga_live0>>
       ELSE /\ ga_pc' = "poll"
            /\ ga_live0' = collectors
            /\ UNCHANGED <<channel, collectors>>
    /\ UNCHANGED <<m_def, app_handles, col_metric, gatherer_alive, ga_i,
                   ga_metrics, ga_result, snap_held, reg_last, ga_polled,
                   ga_known, removed, afterDrop, freeStart>>
    /\ OtherThanRegistry

\* Gatherer::gather, one turn of `while i < self.collectors.len()`.
Gatherer_gather_collect ==
    /\ ga_pc = "poll"
    /\ ga_i < Len(collectors)
    /\ LET c == collectors[ga_i + 1]
           m == col_metric[c]
       IN  /\ ga_polled' = Append(ga_polled, c)
           /\ IF Weak_upgrade(StrongCount(m))
              THEN /\ ga_metrics' = Append(ga_metrics, m)
                   /\ ga_i' = ga_i + 1
                   /\ UNCHANGED <<collectors, removed>>
              ELSE /\ collectors' = Vec_swap_remove(collectors, ga_i + 1)
                   /\ ga_i' = Gatherer_gather_sameIndex(ga_i)
                   /\ removed' = removed \cup {c}
                   /\ UNCHANGED ga_metrics
    /\ UNCHANGED <<m_def, app_handles, col_metric, gatherer_alive, channel, ga_pc,
                   ga_result, snap_held, reg_last, ga_live0, ga_known,
                   afterDrop, freeStart>>
    /\ OtherThanRegistry

\* Gatherer::gather, after the loop: sort, group, return.  The application
\* keeps the MetricFamilies in place of the one it held.
Gatherer_gather_return ==
    /\ ga_pc = "poll"
    /\ ga_i >= Len(collectors)
    /\ ga_result' = GroupFamilies(<< >>, SortMetrics(ga_metrics))
    /\ snap_held' = TRUE
    /\ ga_pc' = "idle"
    /\ UNCHANGED <<m_def, app_handles, col_metric, gatherer_alive, channel,
                   collectors, ga_i, ga_metrics, reg_last, ga_polled, ga_live0,
                   ga_known, removed, afterDrop, freeStart>>
    /\ OtherThanRegistry

\* The application drops the MetricFamilies it holds.
MetricFamilies_drop ==
    /\ snap_held
    /\ snap_held' = FALSE
    /\ UNCHANGED <<m_def, app_handles, col_metric, gatherer_alive, channel,
                   collectors, ga_pc, ga_i, ga_metrics, ga_result, reg_last,
                   ga_polled, ga_live0, ga_known, removed, afterDrop, freeStart>>
    /\ OtherThanRegistry

\* The Gatherer is dropped, and with it the receiver and the collectors.
Gatherer_drop ==
    /\ gatherer_alive
    /\ ga_pc = "idle"
    /\ gatherer_alive' = FALSE
    /\ channel' = << >>
    /\ collectors' = << >>
    /\ UNCHANGED <<m_def, app_handles, col_metric, ga_pc, ga_i, ga_metrics,
                   ga_result, snap_held, reg_last, ga_polled, ga_live0,
                   ga_known, removed, afterDrop, freeStart>>
    /\ OtherThanRegistry

\* ------------------------------ aggregated metrics (aggregated_metrics.rs)

\* The most metrics pushed into one family.
MaxMembers == 3

\* Option<i64> of a timestamp: None, or Some(t) as <<t>>.
NoTimestamp == << >>
\* Ord of Option<i64>: None is below every Some.
Option_max(a, b) ==
    IF a = NoTimestamp THEN b
    ELSE IF b = NoTimestamp THEN a
    ELSE IF a[1] >= b[1] THEN a ELSE b

\* The metrics a collector may yield: named "a" or "b", with no label, with
\* l="x", with l="y" or with l="x",lf="x", valued 1.0 or 0.5, with and without
\* a timestamp.
AggLabels ==
    {<< >>, <<<<NameL, <<120>>>>>>, <<<<NameL, <<121>>>>>>,
     <<<<NameL, <<120>>>>, <<NameLf, <<120>>>>>>}
AggMetrics ==
    [name : {NameA, NameB}, labels : AggLabels, value : {One, Half},
     timestamp : {NoTimestamp, <<1>>}]

AggregateOff ==
    /\ ag_kind = "counter"
    /\ ag_name = NoName
    /\ ag_entries = << >>
    /\ ag_pushed = << >>
    /\ ag_merge = << >>

AggregateInit ==
    /\ ag_kind \in {"counter", "gauge"}
    /\ ag_name = NoName
    /\ ag_entries = << >>
    /\ ag_pushed = << >>
    /\ ag_merge = << >>

\* AggregatedCounter::new / AggregatedGauge::new: the metric's name and
\* labels, the value and the timestamp read once.
Aggregated_new(metric) == metric

\* Iterator::eq on two label iterators: the same length and equal labels
\* (name and value) position by position.
Iter_eq(a, b) ==
    /\ Len(a) = Len(b)
    /\ \A i \in 1 .. Len(a) : a[i][1] = b[i][1] /\ a[i][2] = b[i][2]

\* AggregatedCounter::try_merge: <<the receiver afterwards, the result>>.
AggregatedCounter_try_mergeByName(self, other) ==
    IF self.name = other.name
    THEN <<[self EXCEPT !.value = FAdd(self.value, other.value),
                        !.timestamp = Option_max(self.timestamp, other.timestamp)],
           TRUE>>
    ELSE <<self, FALSE>>
AggregatedCounter_try_merge(self, other) ==
    LET is_same_metric == self.name = other.name
                              /\ Iter_eq(self.labels, other.labels)
    IN  IF is_same_metric
        THEN <<[self EXCEPT !.value = FAdd(self.value, other.value),
                            !.timestamp = Option_max(self.timestamp, other.timestamp)],
               TRUE>>
        ELSE <<self, FALSE>>

\* AggregatedGauge::try_merge: the same code on a Gauge.
AggregatedGauge_try_mergeByName(self, other) ==
    IF self.name = other.name
    THEN <<[self EXCEPT !.value = FAdd(self.value, other.value),
                        !.timestamp = Option_max(self.timestamp, other.timestamp)],
           TRUE>>
    ELSE <<self, FALSE>>
AggregatedGauge_try_merge(self, other) ==
    LET is_same_metric == self.name = other.name
                              /\ Iter_eq(self.labels, other.labels)
    IN  IF is_same_metric
        THEN <<[self EXCEPT !.value = FAdd(self.value, other.value),
                            !.timestamp = Option_max(self.timestamp, other.timestamp)],
               TRUE>>
        ELSE <<self, FALSE>>

Aggregated_try_merge(kind, self, other) ==
    IF kind = "counter" THEN AggregatedCounter_try_merge(self, other)
    ELSE AggregatedGauge_try_merge(self, other)

\* The first entry of the family that takes the metric, or 0.
MergingEntry(kind, entries, m) ==
    LET takers == {i \in 1 .. Len(entries) :
                      Aggregated_try_merge(kind, entries[i], m)[2]}
    IN  IF takers = {} THEN 0
        ELSE CHOOSE i \in takers : \A j \in takers : i <= j

\* MetricFamily::push on a family of aggregated counters or gauges: one entry
\* (one value line) per distinct label set; the metric is merged into the
\* entry that takes it, or becomes a new entry.
MetricFamily_push_aggregated(kind, entries, m) ==
    LET i == MergingEntry(kind, entries, m)
    IN  IF i = 0 THEN Append(entries, m)
        ELSE [entries EXCEPT ![i] = Aggregated_try_merge(kind, entries[i], m)[1]]

\* The try_merge call that decided a push: on the entry that took the metric,
\* or else on the last entry asked.
DecidingMerge(kind, entries, m) ==
    LET i == MergingEntry(kind, entries, m)
        k == IF i = 0 THEN Len(entries) ELSE i
        r == Aggregated_try_merge(kind, entries[k], m)
    IN  <<entries[k], m, r[1], r[2]>>

\* A try_merge call on two aggregated metrics of any names and labels (one
\* such call per run, before the family is folded).
Aggregated_try_merge_call(a, b) ==
    /\ ag_pushed = << >>
    /\ ag_merge = << >>
    /\ LET r == Aggregated_try_merge(ag_kind, Aggregated_new(a), Aggregated_new(b))
       IN  ag_merge' = <<Aggregated_new(a), Aggregated_new(b), r[1], r[2]>>
    /\ UNCHANGED <<ag_kind, ag_name, ag_entries, ag_pushed>>
    /\ OtherThanAggregate

\* gather: the first metric of a (name, kind) run opens the family.
MetricFamily_new_aggregated(m) ==
    /\ ag_pushed = << >>
    /\ ag_name' = m.name
    /\ ag_entries' = <<Aggregated_new(m)>>
    /\ ag_pushed' = <<m>>
    /\ ag_merge' = << >>
    /\ UNCHANGED ag_kind
    /\ OtherThanAggregate

\* gather: a further metric of the run (same_family holds) is pushed.
MetricFamily_push_metric(m) ==
    /\ ag_pushed # << >>
    /\ Len(ag_pushed) < MaxMembers
    /\ m.name = ag_name
    /\ ag_entries' = MetricFamily_push_aggregated(ag_kind, ag_entries, Aggregated_new(m))
    /\ ag_merge' = DecidingMerge(ag_kind, ag_entries, Aggregated_new(m))
    /\ ag_pushed' = Append(ag_pushed, m)
    /\ UNCHANGED <<ag_kind, ag_name>>
    /\ OtherThanAggregate

\* -------------------------------- AggregatedCumulativeBuckets (bucket.rs)

\* The most histograms in one aggregation.
MaxHistograms == 2

\* -x and a - b on f64.
FNeg(x) == IF IsNaN(x) THEN NaN ELSE 0 - x
FSub(a, b) == FAdd(a, FNeg(b))

\* |d| < std::f64::EPSILON, the distance from 1.0 to the next f64: one unit
\* divided by 2^(MantBits - 1).
LtEpsilon(d) == ~IsNaN(d) /\ Abs(d) * Pow2(MantBits - 1) < Scale

\* The bounds given to HistogramBuilder::bucket for the histograms that are
\* aggregated, and the bucket lists finish builds from at most two of them:
\* sorted, +Inf last, 0 or 1 observation in each bucket.
AggBounds == {NInf, 5 * One, 10 * One}
AggBoundLists ==
    {<<PInf>>} \cup {<<a, PInf>> : a \in AggBounds}
    \cup {<<p[1], p[2], PInf>> :
             p \in {q \in AggBounds \X AggBounds : q[1] <= q[2]}}
AggHistograms ==
    UNION {{[i \in 1 .. Len(bs) |-> <<bs[i], c[i]>>] :
              c \in [1 .. Len(bs) -> {0, 1}]} : bs \in AggBoundLists}

AggBucketsOff ==
    /\ ab_inners = << >>
    /\ ab_pc = "off"
    /\ ab_iters = << >>
    /\ ab_cumulative_count = 0
    /\ ab_yielded = << >>

AggBucketsInit ==
    /\ ab_inners \in UNION {[1 .. n -> AggHistograms] : n \in 1 .. MaxHistograms}
    /\ ab_pc = "idle"
    /\ ab_iters = << >>
    /\ ab_cumulative_count = 0
    /\ ab_yielded = << >>

\* The first loop of next(): min starts at +Inf and becomes the least bound a
\* peek returns; an exhausted iterator is swap_removed and slot i looked at
\* again.  <<iters, min>> when the loop ends.
RECURSIVE AggregatedCumulativeBuckets_scan(_, _, _)
AggregatedCumulativeBuckets_scan(iters, i, min) ==
    IF i > Len(iters) THEN <<iters, min>>
    ELSE IF iters[i] # << >>
         THEN LET bound == iters[i][1][1]
              IN  AggregatedCumulativeBuckets_scan(
                      iters, i + 1, IF FLt(bound, min) THEN bound ELSE min)
         ELSE AggregatedCumulativeBuckets_scan(Vec_swap_remove(iters, i), i, min)

\* Whether the second loop of next() takes the bucket an iterator peeks at.
AggregatedCumulativeBuckets_takesNear(upper_bound, min) ==
    LtEpsilon(FSub(upper_bound, min))
AggregatedCumulativeBuckets_takes(upper_bound, min) ==
    IsInfinite(min) \/ LtEpsilon(FSub(upper_bound, min))

\* The second loop of next(): the iterators that take their bucket advance and
\* its count is added.  <<iters, cumulative_count>>.
RECURSIVE AggregatedCumulativeBuckets_advance(_, _, _, _)
AggregatedCumulativeBuckets_advance(iters, i, min, count) ==
    IF i > Len(iters) THEN <<iters, count>>
    ELSE IF AggregatedCumulativeBuckets_takes(iters[i][1][1], min)
         THEN AggregatedCumulativeBuckets_advance(
                  [iters EXCEPT ![i] = Tail(iters[i])], i + 1, min,
                  (count + iters[i][1][2]) % Modulus)
         ELSE AggregatedCumulativeBuckets_advance(iters, i + 1, min, count)

\* AggregatedHistogram::cumulative_buckets: AggregatedCumulativeBuckets::new.
AggregatedCumulativeBuckets_new ==
    /\ ab_pc = "idle"
    /\ ab_iters' = ab_inners
    /\ ab_cumulative_count' = 0
    /\ ab_pc' = "iterating"
    /\ UNCHANGED <<ab_inners, ab_yielded>>
    /\ OtherThanAggBuckets

\* AggregatedCumulativeBuckets::next: None once every iterator is exhausted,
\* else the next cumulative bucket.
AggregatedCumulativeBuckets_next ==
    /\ ab_pc = "iterating"
    /\ LET scanned == AggregatedCumulativeBuckets_scan(ab_iters, 1, PInf)
           min == scanned[2]
       IN  IF scanned[1] = << >>
           THEN /\ ab_pc' = "done"
                /\ ab_iters' = scanned[1]
                /\ UNCHANGED <<ab_cumulative_count, ab_yielded>>
           ELSE LET advanced == AggregatedCumulativeBuckets_advance(
                                    scanned[1], 1, min, ab_cumulative_count)
                IN  /\ ab_iters' = advanced[1]
                    /\ ab_cumulative_count' = advanced[2]
                    /\ ab_yielded' = Append(ab_yielded, <<min, advanced[2]>>)
                    /\ UNCHANGED ab_pc
    /\ UNCHANGED ab_inners
    /\ OtherThanAggBuckets

\* ------------------------------------------------ Timestamp (timestamp.rs)

\* i64 values, WordBits wide: i64::MIN .. i64::MAX.
I64Min == 0 - Pow2(WordBits - 1)
I64Max == Pow2(WordBits - 1) - 1
I64Values == I64Min .. I64Max

\* const NO_VALUE: i64 = std::i64::MIN.
NO_VALUE == I64Min

\* The milliseconds set_time computes from the times it is given.
TimeMillis == {I64Min, 0 - 1, 0, 1, I64Max}

\* Timestamp::new.
TimestampInit ==
    /\ ts_cell = NO_VALUE
    /\ ts_last = << >>
    /\ ts_want = << >>

\* assert_ne!(timestamp, NO_VALUE) of Timestamp::set.
Timestamp_set_acceptsAll(timestamp) == TRUE
Timestamp_set_accepts(timestamp) == timestamp # NO_VALUE

\* Timestamp::get: one load; None is << >>, Some(v) is <<v>>.
Timestamp_get_f(v) == IF v = NO_VALUE THEN << >> ELSE <<v>>

Timestamp_get ==
    /\ ts_last' = <<"get", 0, Timestamp_get_f(ts_cell)>>
    /\ UNCHANGED <<ts_cell, ts_want>>
    /\ OtherThanTimestamp

\* Timestamp::clear / TimestampMut::clear: one store.
Timestamp_clear ==
    /\ ts_cell' = NO_VALUE
    /\ ts_want' = << >>
    /\ ts_last' = <<"clear", 0, "returned">>
    /\ OtherThanTimestamp

\* Timestamp::set / TimestampMut::set: the assertion, then one store.
Timestamp_set(timestamp) ==
    /\ IF Timestamp_set_accepts(timestamp)
       THEN /\ ts_cell' = timestamp
            /\ ts_want' = <<timestamp>>
            /\ ts_last' = <<"set", timestamp, "returned">>
       ELSE /\ ts_last' = <<"set", timestamp, "panicked">>
            /\ UNCHANGED <<ts_cell, ts_want>>
    /\ OtherThanTimestamp

\* Timestamp::set_time / set_now: set() with the milliseconds computed.
Timestamp_set_time(millis) ==
    /\ IF Timestamp_set_accepts(millis)
       THEN /\ ts_cell' = millis
            /\ ts_want' = <<millis>>
            /\ ts_last' = <<"set_time", millis, "returned">>
       ELSE /\ ts_last' = <<"set_time", millis, "panicked">>
            /\ UNCHANGED <<ts_cell, ts_want>>
    /\ OtherThanTimestamp

\* ------------------------------ ObservedCounter (observed_counter.rs)

\* Counts given to ObservedCounter::set.
ObservedCounts ==
    {NInf, 0 - One, 0 - Half, 0, Half, One, One + Half, 2 * One, 3 * One, PInf,
     NaN}

\* ObservedCounterBuilder::finish: value: AtomicF64::new(0.0).
ObservedInit ==
    /\ oc_value = 0
    /\ oc_last = << >>
    /\ oc_read = NoVal

\* track_assert!(count >= 0.0, ErrorKind::InvalidInput) of ObservedCounter::set.
ObservedCounter_set_accepts(count) == FGe(count, 0)

\* ObservedCounter::set: the assertion, then one store of count.
ObservedCounter_set(count) ==
    /\ IF ObservedCounter_set_accepts(count)
       THEN /\ oc_value' = count
            /\ oc_last' = <<count, "Ok", oc_value>>
       ELSE /\ oc_last' = <<count, "InvalidInput", oc_value>>
            /\ UNCHANGED oc_value
    /\ UNCHANGED oc_read
    /\ OtherThanObserved

\* ObservedCounter::value: one load.
ObservedCounter_value ==
    /\ oc_read' = oc_value
    /\ UNCHANGED <<oc_value, oc_last>>
    /\ OtherThanObserved

\* ------------------------------------- rendering of labels (label.rs)

\* The most characters in a label value that is rendered.
MaxValueLen == 2

\* Characters: tab, line feed, the double quote, =, the backslash, n, t, x.
CharTab == <<9>>
CharLf == <<10>>
CharQuote == <<34>>
CharEq == <<61>>
CharBackslash == <<92>>
CharN == <<110>>
CharT == <<116>>
CharX == <<120>>

\* The label values rendered: up to MaxValueLen characters out of tab, line
\* feed, double quote, backslash and x.
ValueChars == {9, 10, 34, 92, 120}
RenderValues == UNION {[1 .. n -> ValueChars] : n \in 0 .. MaxValueLen}

RenderOff ==
    /\ lr_label = <<NameL, << >>>>
    /\ lr_place = "none"
    /\ lr_out = << >>

RenderInit ==
    /\ lr_label \in {<<NameL, v>> : v \in RenderValues}
    /\ lr_place = "none"
    /\ lr_out = << >>

\* The match of Display for Label on one character of the value.
Label_fmt_char(c) ==
    IF <<c>> = CharBackslash THEN CharBackslash \o CharBackslash
    ELSE IF <<c>> = CharLf THEN CharBackslash \o CharBackslash \o CharN
    ELSE IF <<c>> = CharQuote THEN CharBackslash \o CharQuote
    ELSE <<c>>

\* char::escape_debug, which Debug for str ({:?}) applies to each character.
Char_escape_debug(c) ==
    IF <<c>> = CharTab THEN CharBackslash \o CharT
    ELSE IF <<c>> = CharLf THEN CharBackslash \o CharN
    ELSE IF <<c>> = CharBackslash THEN CharBackslash \o CharBackslash
    ELSE IF <<c>> = CharQuote THEN CharBackslash \o CharQuote
    ELSE <<c>>

\* Display for Label: name="<each character of the value, escaped>".
RECURSIVE Label_fmt_value(_)
Label_fmt_value(value) ==
    IF value = << >> THEN << >>
    ELSE Label_fmt_char(value[1]) \o Label_fmt_value(Tail(value))
Label_fmt(label) ==
    label[1] \o CharEq \o CharQuote \o Label_fmt_value(label[2]) \o CharQuote

\* Debug for str: the escaped characters between double quotes.
RECURSIVE Str_escape_debug(_)
Str_escape_debug(value) ==
    IF value = << >> THEN << >>
    ELSE Char_escape_debug(value[1]) \o Str_escape_debug(Tail(value))
Str_fmt_debug(value) == CharQuote \o Str_escape_debug(value) \o CharQuote

\* write!(f, ",{}={:?}", label.name(), label.value()) of the bucket and
\* quantile lines, after the comma.
Label_fmt_name_debug(label) == label[1] \o CharEq \o Str_fmt_debug(label[2])

\* Display for Labels (the value lines of counters and gauges and the _sum
\* and _count lines): each label by Display for Label.
Labels_fmt ==
    /\ lr_place' = "label"
    /\ lr_out' = Label_fmt(lr_label)
    /\ UNCHANGED lr_label
    /\ OtherThanRender

\* Display for Histogram: the label in a _bucket line.
Histogram_fmt_bucket ==
    /\ lr_place' = "bucket"
    /\ lr_out' = Label_fmt_name_debug(lr_label)
    /\ UNCHANGED lr_label
    /\ OtherThanRender

\* Display for Summary: the label in a quantile line.
Summary_fmt_quantile ==
    /\ lr_place' = "quantile"
    /\ lr_out' = Label_fmt_name_debug(lr_label)
    /\ UNCHANGED lr_label
    /\ OtherThanRender

\* ------------------------------- Atomic64::update without end (atomic.rs)

\* An update is started only while the cell is within this range of 0.
UpdateRange == 1

UpdateInit ==
    /\ at_cell = 0
    /\ at_pc = [t \in Threads |-> "idle"]
    /\ at_count = [t \in Threads |-> 0]
    /\ at_old = [t \in Threads |-> 0]
    /\ at_retried = [t \in Threads |-> FALSE]
    /\ at_event = 0

\* Gauge::add(count) (increment, decrement; the sum of a histogram or of a
\* summary): enters Atomic64::update with the closure |v| v + count.
Atomic64_update(t, count) ==
    /\ at_pc[t] = "idle"
    /\ Abs(at_cell + count) <= UpdateRange * One
    /\ at_pc' = [at_pc EXCEPT ![t] = "get"]
    /\ at_count' = [at_count EXCEPT ![t] = count]
    /\ at_retried' = [at_retried EXCEPT ![t] = FALSE]
    /\ at_event' = 0
    /\ UNCHANGED <<at_cell, at_old>>
    /\ OtherThanUpdate

\* Atomic64::update: `let old = self.get()`.
Atomic64_update_loop_get(t) ==
    /\ at_pc[t] = "get"
    /\ at_old' = [at_old EXCEPT ![t] = at_cell]
    /\ at_pc' = [at_pc EXCEPT ![t] = "cas"]
    /\ at_event' = 0
    /\ UNCHANGED <<at_cell, at_count, at_retried>>
    /\ OtherThanUpdate

\* Atomic64::update: `let new = f(old)` and the compare_and_swap(old, new);
\* break when the swap took place, the next turn of the loop when not.
Atomic64_update_loop_cas(t) ==
    /\ at_pc[t] = "cas"
    /\ IF CasSucceeds(at_cell, at_old[t])
       THEN /\ at_cell' = Gauge_add_f(at_old[t], at_count[t])
            /\ at_pc' = [at_pc EXCEPT ![t] = "idle"]
            /\ at_event' = t
            /\ UNCHANGED at_retried
       ELSE /\ at_pc' = [at_pc EXCEPT ![t] = "get"]
            /\ at_retried' = [at_retried EXCEPT ![t] = TRUE]
            /\ at_event' = 0
            /\ UNCHANGED at_cell
    /\ UNCHANGED <<at_count, at_old>>
    /\ OtherThanUpdate

\* ---------------------------------------------------------- specifications

CounterNext ==
    \/ \E t \in Threads : Counter_increment(t)
    \/ \E t \in Threads, c \in F64Args : Counter_add_rejected(t, c)
    \/ \E t \in Threads, c \in F64Args : Counter_add_integral(t, c)
    \/ \E t \in Threads, c \in F64Args : Counter_add_fractional(t, c)
    \/ \E t \in Threads, n \in U64Args : Counter_add_u64(t, n)
    \/ \E t \in Threads : Counter_f64_get(t)
    \/ \E t \in Threads : Counter_f64_cas(t)
    \/ Counter_value_f64
    \/ Counter_value_u64

\* The counter, mutated by NumThreads threads and read by one more.
CounterSpecInit ==
    CounterInit /\ GaugeOff /\ HistogramOff /\ SummaryOff /\ LabelsOff /\ IterInit
    /\ RegistryInit
    /\ AggregateOff
    /\ AggBucketsOff
    /\ TimestampInit
    /\ ObservedInit
    /\ RenderOff
    /\ UpdateInit
    /\ HistReadOff
    /\ SumObserveOff
    /\ LabelsConcOff
    /\ LabelRefOff
    /\ CounterReadInit
    /\ BuilderOff
    /\ GatherInit

SpecCounter == CounterSpecInit /\ [][CounterNext]_vars

GaugeNext ==
    \/ \E t \in Threads, c \in GaugeCounts : Gauge_add(t, c)
    \/ \E t \in Threads : Atomic64_update_get(t)
    \/ \E t \in Threads : Atomic64_update_cas(t)
    \/ \E t \in Threads, v \in GaugeValues : Gauge_set(t, v)

\* One gauge (an Atomic64<f64>), updated and set by NumThreads threads.
GaugeSpecInit ==
    GaugeInit /\ CounterInit /\ HistogramOff /\ SummaryOff /\ LabelsOff /\ IterInit
    /\ RegistryInit
    /\ AggregateOff
    /\ AggBucketsOff
    /\ TimestampInit
    /\ ObservedInit
    /\ RenderOff
    /\ UpdateInit
    /\ HistReadOff
    /\ SumObserveOff
    /\ LabelsConcOff
    /\ LabelRefOff
    /\ CounterReadInit
    /\ BuilderOff
    /\ GatherInit

SpecGauge == GaugeSpecInit /\ [][GaugeNext]_vars

InprogressNext ==
    \/ \E t \in Threads : Gauge_track_inprogress(t)
    \/ \E t \in Threads : Gauge_track_inprogress_call(t)
    \/ \E t \in Threads : Gauge_track_inprogress_returned(t)
    \/ \E t \in Threads : Gauge_track_inprogress_unwound(t)
    \/ \E t \in Threads : Gauge_track_inprogress_return(t)
    \/ \E t \in Threads : Atomic64_update_get(t)
    \/ \E t \in Threads : Atomic64_update_cas(t)

\* One gauge that starts at 0 and is mutated only by track_inprogress, called
\* on its clones by NumThreads threads.
InprogressSpecInit ==
    InprogressInit /\ CounterInit /\ HistogramOff /\ SummaryOff /\ LabelsOff /\ IterInit
    /\ RegistryInit
    /\ AggregateOff
    /\ AggBucketsOff
    /\ TimestampInit
    /\ ObservedInit
    /\ RenderOff
    /\ UpdateInit
    /\ HistReadOff
    /\ SumObserveOff
    /\ LabelsConcOff
    /\ LabelRefOff
    /\ CounterReadInit
    /\ BuilderOff
    /\ GatherInit

SpecInprogress == InprogressSpecInit /\ [][InprogressNext]_vars

HistogramNext ==
    \/ HistogramBuilder_with_linear_buckets
    \/ \E b \in BucketArgs : HistogramBuilder_bucket(b)
    \/ HistogramBuilder_finish
    \/ \E t \in Threads, v \in ObserveArgs : Histogram_observe_nan(t, v)
    \/ \E t \in Threads, v \in ObserveArgs : Histogram_observe(t, v)
    \/ \E t \in Threads : Histogram_observe_count(t)
    \/ \E t \in Threads : Histogram_sum_get(t)
    \/ \E t \in Threads : Histogram_sum_cas(t)

\* One histogram: built, then observed by NumThreads threads.
HistogramSpecInit ==
    HistogramInit /\ CounterInit /\ GaugeOff /\ SummaryOff /\ LabelsOff /\ IterInit
    /\ RegistryInit
    /\ AggregateOff
    /\ AggBucketsOff
    /\ TimestampInit
    /\ ObservedInit
    /\ RenderOff
    /\ UpdateInit
    /\ HistReadOff
    /\ SumObserveOff
    /\ LabelsConcOff
    /\ LabelRefOff
    /\ CounterReadInit
    /\ BuilderOff
    /\ GatherInit

SpecHistogram == HistogramSpecInit /\ [][HistogramNext]_vars

SummaryNext ==
    \/ \E q \in QuantileArgs : SummaryBuilder_quantile(q)
    \/ SummaryBuilder_finish
    \/ Clock_tick
    \/ \E v \in SummaryArgs : Summary_observe(v)
    \/ Summary_quantiles

\* One summary: built, then used by one thread while time passes.
SummarySpecInit ==
    SummaryInit /\ CounterInit /\ GaugeOff /\ HistogramOff /\ LabelsOff /\ IterInit
    /\ RegistryInit
    /\ AggregateOff
    /\ AggBucketsOff
    /\ TimestampInit
    /\ ObservedInit
    /\ RenderOff
    /\ UpdateInit
    /\ HistReadOff
    /\ SumObserveOff
    /\ LabelsConcOff
    /\ LabelRefOff
    /\ CounterReadInit
    /\ BuilderOff
    /\ GatherInit

SpecSummary == SummarySpecInit /\ [][SummaryNext]_vars

LabelsNext ==
    \/ \E n \in LabelNames, v \in LabelValues : HistogramBuilder_label(n, v)
    \/ HistogramBuilder_finish_labels
    \/ \E t \in Threads, n \in LabelNames, v \in LabelValues :
          LabelsMut_insert_rejected(t, n, v)
    \/ \E t \in Threads, n \in LabelNames, v \in LabelValues :
          LabelsMut_insert(t, n, v)
    \/ \E t \in Threads, n \in LabelNames : LabelsMut_remove(t, n)
    \/ \E t \in Threads : AtomicImmut_update_load(t)
    \/ \E t \in Threads : AtomicImmut_update_cas(t)
    \/ \E t \in Threads : LabelsMut_clear(t)

\* The labels of one metric: built, then changed by NumThreads threads.
LabelsSpecInit ==
    LabelsInit /\ CounterInit /\ GaugeOff /\ HistogramOff /\ SummaryOff /\ IterInit
    /\ RegistryInit
    /\ AggregateOff
    /\ AggBucketsOff
    /\ TimestampInit
    /\ ObservedInit
    /\ RenderOff
    /\ UpdateInit
    /\ HistReadOff
    /\ SumObserveOff
    /\ LabelsConcOff
    /\ LabelRefOff
    /\ CounterReadInit
    /\ BuilderOff
    /\ GatherInit

SpecLabels == LabelsSpecInit /\ [][LabelsNext]_vars

LabelsMutNext ==
    \/ \E n \in MutNames, v \in MutValues : HistogramBuilder_label(n, v)
    \/ HistogramBuilder_finish_labels
    \/ \E t \in Threads, n \in MutNames, v \in MutValues :
          LabelsMut_insert_rejected(t, n, v)
    \/ \E t \in Threads, n \in MutNames, v \in MutValues :
          LabelsMut_insert(t, n, v)
    \/ \E t \in Threads, n \in MutNames : LabelsMut_remove(t, n)
    \/ \E t \in Threads : AtomicImmut_update_load(t)
    \/ \E t \in Threads : AtomicImmut_update_cas(t)
    \/ \E t \in Threads : LabelsMut_clear(t)
    \/ Labels_iter
    \/ Iter_next

\* The labels of one histogram or summary: built, then changed by NumThreads
\* threads while one more thread iterates over them.
LabelsMutSpecInit ==
    LabelsMutInit /\ CounterInit /\ GaugeOff /\ HistogramOff /\ SummaryOff /\ IterInit
    /\ RegistryInit
    /\ AggregateOff
    /\ AggBucketsOff
    /\ TimestampInit
    /\ ObservedInit
    /\ RenderOff
    /\ UpdateInit
    /\ HistReadOff
    /\ SumObserveOff
    /\ LabelsConcOff
    /\ LabelRefOff
    /\ CounterReadInit
    /\ BuilderOff
    /\ GatherInit

SpecLabelsMut == LabelsMutSpecInit /\ [][LabelsMutNext]_vars

RegistryNext ==
    \/ \E m \in MetricIds, key \in MetricArgs : Builder_finish(m, key)
    \/ \E m \in MetricIds : Metric_clone(m)
    \/ \E m \in MetricIds : Metric_drop(m)
    \/ \E m \in MetricIds : Registry_register(m)
    \/ Gatherer_gather
    \/ Gatherer_gather_try_recv
    \/ Gatherer_gather_collect
    \/ Gatherer_gather_return
    \/ MetricFamilies_drop
    \/ Gatherer_drop

\* One Gatherer and its Registry, the metrics registered with it, and the
\* application's handles and snapshots.
RegistrySpecInit ==
    RegistryInit /\ CounterInit /\ GaugeOff /\ HistogramOff /\ SummaryOff
    /\ LabelsOff /\ IterInit
    /\ AggregateOff
    /\ AggBucketsOff
    /\ TimestampInit
    /\ ObservedInit
    /\ RenderOff
    /\ UpdateInit
    /\ HistReadOff
    /\ SumObserveOff
    /\ LabelsConcOff
    /\ LabelRefOff
    /\ CounterReadInit
    /\ BuilderOff
    /\ GatherInit

SpecRegistry == RegistrySpecInit /\ [][RegistryNext]_vars

AggregateNext ==
    \/ \E a \in AggMetrics, b \in AggMetrics : Aggregated_try_merge_call(a, b)
    \/ \E m \in AggMetrics : MetricFamily_new_aggregated(m)
    \/ \E m \in AggMetrics : MetricFamily_push_metric(m)

\* One family of counters or of gauges, folded from the metrics of a gather.
AggregateSpecInit ==
    AggregateInit /\ CounterInit /\ GaugeOff /\ HistogramOff /\ SummaryOff
    /\ LabelsOff /\ IterInit /\ RegistryInit
    /\ AggBucketsOff
    /\ TimestampInit
    /\ ObservedInit
    /\ RenderOff
    /\ UpdateInit
    /\ HistReadOff
    /\ SumObserveOff
    /\ LabelsConcOff
    /\ LabelRefOff
    /\ CounterReadInit
    /\ BuilderOff
    /\ GatherInit

SpecAggregate == AggregateSpecInit /\ [][AggregateNext]_vars

AggBucketsNext ==
    \/ AggregatedCumulativeBuckets_new
    \/ AggregatedCumulativeBuckets_next

\* The cumulative buckets of an aggregation of up to MaxHistograms histograms.
AggBucketsSpecInit ==
    AggBucketsInit /\ CounterInit /\ GaugeOff /\ HistogramOff /\ SummaryOff
    /\ LabelsOff /\ IterInit /\ RegistryInit /\ AggregateOff
    /\ TimestampInit
    /\ ObservedInit
    /\ RenderOff
    /\ UpdateInit
    /\ HistReadOff
    /\ SumObserveOff
    /\ LabelsConcOff
    /\ LabelRefOff
    /\ CounterReadInit
    /\ BuilderOff
    /\ GatherInit

SpecAggBuckets == AggBucketsSpecInit /\ [][AggBucketsNext]_vars

TimestampNext ==
    \/ Timestamp_get
    \/ Timestamp_clear
    \/ \E t \in I64Values : Timestamp_set(t)
    \/ \E ms \in TimeMillis : Timestamp_set_time(ms)

\* The timestamp of one metric, read and written through its clones.
TimestampSpecInit ==
    TimestampInit /\ CounterInit /\ GaugeOff /\ HistogramOff /\ SummaryOff
    /\ LabelsOff /\ IterInit /\ RegistryInit /\ AggregateOff /\ AggBucketsOff
    /\ ObservedInit
    /\ RenderOff
    /\ UpdateInit
    /\ HistReadOff
    /\ SumObserveOff
    /\ LabelsConcOff
    /\ LabelRefOff
    /\ CounterReadInit
    /\ BuilderOff
    /\ GatherInit

SpecTimestamp == TimestampSpecInit /\ [][TimestampNext]_vars

ObservedNext ==
    \/ \E c \in ObservedCounts : ObservedCounter_set(c)
    \/ ObservedCounter_value

\* One ObservedCounter, set and read.
ObservedSpecInit ==
    ObservedInit /\ CounterInit /\ GaugeOff /\ HistogramOff /\ SummaryOff
    /\ LabelsOff /\ IterInit /\ RegistryInit /\ AggregateOff /\ AggBucketsOff
    /\ TimestampInit
    /\ RenderOff
    /\ UpdateInit
    /\ HistReadOff
    /\ SumObserveOff
    /\ LabelsConcOff
    /\ LabelRefOff
    /\ CounterReadInit
    /\ BuilderOff
    /\ GatherInit

SpecObserved == ObservedSpecInit /\ [][ObservedNext]_vars

RenderNext ==
    \/ Labels_fmt
    \/ Histogram_fmt_bucket
    \/ Summary_fmt_quantile

\* One label of a metric, rendered in the places a label is rendered at.
RenderSpecInit ==
    RenderInit /\ CounterInit /\ GaugeOff /\ HistogramOff /\ SummaryOff
    /\ LabelsOff /\ IterInit /\ RegistryInit /\ AggregateOff /\ AggBucketsOff
    /\ TimestampInit /\ ObservedInit
    /\ UpdateInit
    /\ HistReadOff
    /\ SumObserveOff
    /\ LabelsConcOff
    /\ LabelRefOff
    /\ CounterReadInit
    /\ BuilderOff
    /\ GatherInit

SpecRender == RenderSpecInit /\ [][RenderNext]_vars

UpdateNext ==
    \/ \E t \in Threads, c \in GaugeCounts : Atomic64_update(t, c)
    \/ \E t \in Threads : Atomic64_update_loop_get(t)
    \/ \E t \in Threads : Atomic64_update_loop_cas(t)

\* One Atomic64<f64> that NumThreads threads update again and again.
UpdateSpecInit ==
    UpdateInit /\ CounterInit /\ GaugeOff /\ HistogramOff /\ SummaryOff
    /\ LabelsOff /\ IterInit /\ RegistryInit /\ AggregateOff /\ AggBucketsOff
    /\ TimestampInit /\ ObservedInit /\ RenderOff
    /\ HistReadOff
    /\ SumObserveOff
    /\ LabelsConcOff
    /\ LabelRefOff
    /\ CounterReadInit
    /\ BuilderOff
    /\ GatherInit

\* Fair scheduling: a thread that is inside update takes its next step.
UpdateFairness ==
    \A t \in Threads :
        WF_vars(Atomic64_update_loop_get(t) \/ Atomic64_update_loop_cas(t))

SpecUpdate == UpdateSpecInit /\ [][UpdateNext]_vars /\ UpdateFairness

\* ------------------------------------------------------------ Counter claims

\* C1 (as claimed): of any two successive Counter::value() reads, the later
\* one is >= the earlier one, whatever non-negative amounts are added in
\* between (Counter::add refuses the negative ones).
C1_ValueNeverDecreases ==
    [][(rd_pc = "u64" /\ rd_pc' = "idle" /\ rd_last # NoVal)
           => FLe(rd_last, rd_last')]_vars

\* C2 (as claimed): a counter mutated only by increment and add_u64 has
\* value() equal to exactly the sum of the increments once all calls returned.
C2_ValueIsExactSum ==
    c_onlyInt => Value_get(counter_f64, counter_u64) = c_total * Scale

\* The largest n such that every integer up to n is an f64 (2^53 in the program).
ExactIntMax == Pow2(MantBits)

\* C2 (amended): a counter mutated only by increment and add_u64 holds the sum
\* of the increments modulo 2^WordBits in its integer accumulator, and value()
\* is exactly that sum as long as the sum does not exceed ExactIntMax.
C2_ValueIsExactSumWhileRepresentable ==
    c_onlyInt =>
        /\ counter_f64 = 0
        /\ counter_u64 = c_total % Modulus
        /\ c_total <= ExactIntMax
              => Value_get(counter_f64, counter_u64) = c_total * Scale

\* C2 witness: several threads have incremented and added, and the sum is
\* still exactly representable.
C2_Witness ==
    /\ c_onlyInt
    /\ c_callers = Threads
    /\ c_calls >= 3
    /\ c_total >= 4
    /\ c_total <= ExactIntMax
    /\ \A t \in Threads : c_pc[t] = "idle"

\* C3: a Counter::add that returns in this step with a negative count returns
\* InvalidInput, and a Counter::add that returns InvalidInput leaves both
\* accumulators, and every thread's state inside the counter, as they were.
C3_NegativeAddRejected ==
    [][c_last' # c_last =>
          /\ FLt(c_last'[1], 0) => c_last'[2] = "InvalidInput"
          /\ c_last'[2] = "InvalidInput" =>
                /\ UNCHANGED <<counter_f64, counter_u64, c_pc, c_count, c_old>>
                /\ Value_get(counter_f64', counter_u64')
                      = Value_get(counter_f64, counter_u64)]_vars

\* C3 witness: a negative add was refused on a counter that holds something in
\* both accumulators.
C3_Witness ==
    /\ c_last[2] = "InvalidInput"
    /\ FLt(c_last[1], 0)
    /\ counter_u64 > 0
    /\ counter_f64 > 0

\* -------------------------------------------------------------- Gauge claims

\* C4: Atomic64::update is atomic with respect to update and set.  In every
\* state the cell holds the value of the last store plus the counts of all
\* updates that have returned since (k + N after N increments of a cell that
\* held k); an update that returns installs f of the value the cell holds at
\* that moment; and an update whose read is stale leaves the cell alone and
\* reads again.
C4_UpdateIsAtomic ==
    /\ [](gauge_value = g_base + g_net)
    /\ [][\A t \in Threads :
            /\ (g_pc[t] = "cas" /\ g_pc'[t] = "idle")
                  => gauge_value' = Gauge_add_f(gauge_value, g_count[t])
            /\ (g_pc[t] = "cas" /\ gauge_value # g_old[t] /\ g_pc'[t] # "cas")
                  => (g_pc'[t] = "get" /\ gauge_value' = gauge_value)]_vars

\* C4 witness: every call has returned, updates have lost the race both to
\* another update and to a set, and the cell holds the set value plus the
\* increments made since.
C4_Witness ==
    /\ \A t \in Threads : g_pc[t] = "idle"
    /\ g_lost = {"update", "set"}
    /\ g_net >= 2 * One
    /\ g_base # 0
    /\ gauge_value = g_base + g_net

\* ---------------------------------------------------------- Histogram claims

\* C5: every Histogram::observe(v) with a non-NaN v increments exactly one
\* bucket counter, that of the lowest-index bucket whose upper bound is >= v,
\* and leaves every other bucket alone; it increments count by 1 and adds v
\* to sum.  This is so for every histogram finish can produce, repeated
\* bounds included.
C5_ObserveIncrementsLowestBucket ==
    [][\A t \in Threads :
          /\ (h_pc[t] = "idle" /\ h_pc'[t] = "count") =>
                \E i \in DOMAIN hist_buckets :
                    /\ FGe(hist_bounds[i], h_value'[t])
                    /\ \A j \in 1 .. i - 1 : FLt(hist_bounds[j], h_value'[t])
                    /\ hist_buckets' = [hist_buckets EXCEPT ![i] = @ + 1]
          /\ (h_pc[t] = "count" /\ h_pc'[t] = "get") =>
                /\ hist_count' = hist_count + 1
                /\ UNCHANGED hist_buckets
          /\ (h_pc[t] = "cas" /\ h_pc'[t] = "idle") =>
                /\ hist_sum' = FAdd(hist_sum, h_value[t])
                /\ UNCHANGED hist_buckets]_vars

\* C6: whenever no observe is in progress, cumulative_buckets() yields upper
\* bounds in ascending order and cumulative counts that never decrease, its
\* last entry has the upper bound +Inf, and that entry's cumulative count
\* equals count().
C6_CumulativeBucketsWellFormed ==
    HistogramQuiescent =>
        LET cb == CumulativeBuckets(hist_bounds, hist_buckets)
            n == Len(cb)
        IN  /\ n >= 1
            /\ \A i \in 1 .. n - 1 :
                  /\ FLe(cb[i][1], cb[i + 1][1])
                  /\ cb[i][2] <= cb[i + 1][2]
            /\ cb[n][1] = PInf
            /\ cb[n][2] = hist_count

\* Observations have been made from every thread into a histogram of three
\* buckets or more, and they did not all fall into the same bucket.
C6_Witness ==
    /\ HistogramQuiescent
    /\ Len(hist_buckets) >= 3
    /\ hist_count >= 3
    /\ Cardinality({i \in DOMAIN hist_buckets : hist_buckets[i] > 0}) >= 2
    /\ hist_buckets[Len(hist_buckets)] > 0

\* The number of observations made so far of a value <= b, and of any value.
RECURSIVE SeenIn(_)
SeenIn(values) ==
    IF values = {} THEN 0
    ELSE LET v == CHOOSE x \in values : TRUE
         IN  h_seen[v] + SeenIn(values \ {v})

SeenAtMost(b) == SeenIn({v \in ObservedValues : FLe(v, b)})

\* The histogram and the observations of the crate's test; 52 stands for the
\* test's 50.1, a value above every finite bound.
TestBounds == <<0, 10 * One, 20 * One, 30 * One, 40 * One, PInf>>
TestObserved == [v \in ObservedValues |-> 1]
TestCumulative ==
    <<<<0, 0>>, <<10 * One, 2>>, <<20 * One, 3>>, <<30 * One, 3>>,
      <<40 * One, 3>>, <<PInf, 4>>>>

\* C7: with distinct ascending bounds (and the implicit +Inf bucket), whenever
\* no observe is in progress the cumulative count reported for a bound b is
\* the number of observed values <= b and count() is the number of
\* observations; bounds 0, 10, 20, 30, 40 and the observations 7, 12, 52, 10
\* give (0,0), (10,2), (20,3), (30,3), (40,3), (+Inf,4).
C7_CumulativeCountIsObservationsAtMostBound ==
    (/\ HistogramQuiescent
     /\ \A i \in 1 .. Len(hist_bounds) - 1 : FLt(hist_bounds[i], hist_bounds[i + 1]))
        =>
        LET cb == CumulativeBuckets(hist_bounds, hist_buckets)
        IN  /\ \A i \in DOMAIN cb : cb[i][2] = SeenAtMost(cb[i][1])
            /\ hist_count = SeenIn(ObservedValues)
            /\ (hist_bounds = TestBounds /\ h_seen = TestObserved)
                  => cb = TestCumulative

\* The test's histogram after the test's four observations.
C7_Witness ==
    /\ HistogramQuiescent
    /\ hist_bounds = TestBounds
    /\ h_seen = TestObserved
    /\ hist_count = 4

\* ------------------------------------------------------------ Summary claims

\* floor(q * n) for a quantile q (in quanta) and n samples, computed exactly.
FloorOfProduct(quantile, count) == (quantile * count) \div Scale

\* C8: with n >= 1 retained non-NaN samples, sorted ascending,
\* Summary::quantiles returns for every configured quantile q in [0, 1], 1.0
\* included, the sample at index min(n - 1, floor(q * n)); it never fails and
\* never indexes outside the samples; it returns the empty list when n = 0.
C8_QuantilesAreClampedNearestRank ==
    /\ sum_state # "panicked"
    /\ s_last = "quantiles" =>
          LET samples == SortValues(NonNaNValues(sum_samples))
              n == Len(samples)
          IN  IF n = 0 THEN s_result = << >>
              ELSE /\ DOMAIN s_result = DOMAIN sum_quantiles
                   /\ \A k \in DOMAIN sum_quantiles :
                         s_result[k] =
                            <<sum_quantiles[k],
                              samples[Min(n - 1, FloorOfProduct(sum_quantiles[k], n)) + 1]>>

\* C9: used from one thread under a clock that does not go backwards, a
\* sample observed at time t is not among the samples of a quantiles() call
\* made later than t + window, so the call reports values of newer samples
\* only; count() and sum() are those of all the observe calls ever made,
\* evicted samples included.
C9_EvictedSamplesAbsentCountAllTime ==
    /\ sum_count = s_observed
    /\ sum_sum = s_total
    /\ s_last = "quantiles" =>
          /\ \A i \in DOMAIN sum_samples :
                ~(s_now > sum_samples[i][1] + sum_window)
          /\ \A k \in DOMAIN s_result :
                \E i \in DOMAIN sum_samples : s_result[k][2] = sum_samples[i][2]

\* A quantiles() call has returned values after at least one sample had been
\* dropped for its age.
C9_Witness ==
    /\ sum_state = "ok"
    /\ s_last = "quantiles"
    /\ s_result # << >>
    /\ sum_samples # << >>
    /\ sum_count > Len(sum_samples)
    /\ sum_sum # 0

\* ------------------------------------------------------------- Label claims

\* C10: whatever sequence of LabelsMut::insert, remove and clear is applied
\* to the labels a builder produced, the stored labels are in ascending
\* order of name with no name twice; and an insert(name, v) leaves exactly
\* one label of that name, with the value v, also when the name was there.
C10_LabelsSortedAndUnique ==
    /\ [](lab_state = "ok" =>
             \A i \in 1 .. Len(labels) - 1 : StrLt(labels[i][1], labels[i + 1][1]))
    /\ [][\A t \in Threads :
             (l_pc[t] = "cas" /\ l_pc'[t] = "idle" /\ l_op[t][1] = "insert") =>
                 /\ Cardinality({i \in DOMAIN labels' : labels'[i][1] = l_op[t][2]}) = 1
                 /\ \E i \in DOMAIN labels' : labels'[i] = <<l_op[t][2], l_op[t][3]>>]_vars

\* Two labels are stored, every call has returned, and an insert has replaced
\* the value of a label.
C10_Witness ==
    /\ lab_state = "ok"
    /\ l_replaced
    /\ Len(labels) = 2
    /\ l_calls >= 2
    /\ \A t \in Threads : l_pc[t] = "idle"

\* C11: a reader that iterates through Labels::iter while other handles run
\* insert, remove and clear is yielded, in order, the labels of the one vector
\* the label set held when iter() was called: at every point of the iteration
\* the labels yielded so far are the first it_pos labels of that vector, at
\* the end they are all of it, and that vector is strictly ascending by name
\* (no vector in the middle of an edit is ever loaded).
C11_IterSeesOneSnapshot ==
    it_pc # "idle" =>
        /\ it_pos <= Len(it_labels)
        /\ it_seen = SubSeq(it_labels, 1, it_pos)
        /\ it_pc = "done" => it_seen = it_labels
        /\ \A i \in 1 .. Len(it_labels) - 1 :
              StrLt(it_labels[i][1], it_labels[i + 1][1])

\* The reader has been yielded the first of two labels and the label set has
\* been changed since it called iter().
C11_Witness ==
    /\ it_pc = "iterating"
    /\ it_pos = 1
    /\ Len(it_labels) = 2
    /\ labels # it_labels

HasName(s, name) == \E i \in 1 .. Len(s) : s[i][1] = name

\* C12 (as claimed): when the store of an insert(n, v) is followed, with no
\* store in between, by the store of a remove(n), the label set is the one
\* held before the insert, whatever that label set was.
C12_InsertThenRemoveRestores ==
    (l_round # << >> /\ l_round[1] = "removed") => labels = l_round[2]

\* C12 (amended): the same, for a label set that held no label named n before
\* the insert.
C12_InsertThenRemoveRestoresWithoutName ==
    (/\ l_round # << >>
     /\ l_round[1] = "removed"
     /\ ~HasName(l_round[2], l_round[3])) => labels = l_round[2]

\* A label has been inserted into a label set that is not empty and has no
\* label of that name, and removed by the next store.
C12_Witness ==
    /\ l_round # << >>
    /\ l_round[1] = "removed"
    /\ l_round[2] # << >>
    /\ ~HasName(l_round[2], l_round[3])

\* C13: no insert of the reserved name ("le" for a histogram, "quantile" for a
\* summary) gets as far as AtomicImmut::update, so the label set is left as
\* it is; a builder that was given a label of the reserved name never
\* finishes with Ok; and no label set ever holds a label of the reserved name.
C13_ReservedNameRefused ==
    /\ [](lab_state = "ok" => ~HasName(labels, lab_reserved))
    /\ [](HasName(lb_labels, lab_reserved) => lab_state # "ok")
    /\ [][\A t \in Threads :
             (/\ l_op'[t] # l_op[t]
              /\ l_op'[t] # << >>
              /\ l_op'[t][1] = "insert") => l_op'[t][2] # lab_reserved]_vars

\* The finish of a summary's builder that was given a label named "quantile"
\* and no malformed name has returned InvalidInput.
C13_Witness ==
    /\ lab_reserved = NameQuantile
    /\ HasName(lb_labels, NameQuantile)
    /\ \A i \in 1 .. Len(lb_labels) : Label_validate_name(lb_labels[i][1])
    /\ lab_state = "InvalidInput"

\* ------------------------------------------------ Registry and Gatherer claims

\* The elements of a sequence.
Range(s) == {s[i] : i \in 1 .. Len(s)}

\* The metric m is in no family of the last MetricFamilies returned, and no
\* collector of the live list is a collector of m.
GoneFromGatherer(m) ==
    /\ Occurrences(Members(ga_result), m) = 0
    /\ \A i \in 1 .. Len(collectors) : col_metric[collectors[i]] # m

\* C14 (as claimed): once the application has dropped the handle of a
\* registered metric and all its clones, the second gather() started after
\* that, and every later one, returns no family holding the metric and leaves
\* none of its collectors in the live list.
C14_GoneFromSecondGatherAfterDrop ==
    \A m \in MetricIds :
        (ga_pc = "idle" /\ afterDrop[m] >= 2) => GoneFromGatherer(m)

\* C14 (amended): every gather() that starts when the application holds
\* neither a handle of the metric nor a MetricFamilies with the metric in it
\* returns no family holding the metric and leaves none of its collectors in
\* the live list, and so does every later gather().
C14_GoneOnceNothingHoldsTheMetric ==
    \A m \in MetricIds : (ga_pc = "idle" /\ freeStart[m]) => GoneFromGatherer(m)

\* A gather has removed the collector of a metric nothing held, and has kept
\* a collector of another metric.
C14_Witness ==
    /\ ga_pc = "idle"
    /\ collectors # << >>
    /\ \E m \in MetricIds :
          /\ freeStart[m]
          /\ \E c \in removed : col_metric[c] = m

\* C15: when a gather() has returned, the collectors it polled are exactly
\* those of the live list at the time the channel had been drained, each
\* polled once; a removed collector is neither in the live list nor in the
\* channel; and every poll is of a collector that was never removed, leaves
\* the collector in the live list when it yields metrics and removes it when
\* it yields None.
C15_EveryLiveCollectorPolledOnce ==
    /\ [](ga_pc = "idle" =>
            /\ Len(ga_polled) = Len(ga_live0)
            /\ \A c \in Range(ga_live0) : Occurrences(ga_polled, c) = 1)
    /\ [](removed \cap (Range(collectors) \cup Range(channel)) = {})
    /\ [][ga_polled' # ga_polled /\ ga_polled' # << >> =>
             LET c == ga_polled'[Len(ga_polled')]
             IN  /\ c \notin removed
                 /\ IF Weak_upgrade(StrongCount(col_metric[c]))
                    THEN c \in Range(collectors') /\ c \notin removed'
                    ELSE c \notin Range(collectors') /\ c \in removed']_vars

\* A gather has polled three collectors, the first of them dead, and has kept
\* the other two.
C15_Witness ==
    /\ ga_pc = "idle"
    /\ Len(ga_live0) = 3
    /\ ga_live0[1] \in removed
    /\ Len(collectors) = 2

\* C16: the families a gather() returns are strictly ascending by
\* (name, kind); every member of a family has the family's name and kind; and
\* every metric the polled collectors yielded is a member of the families as
\* many times as it was yielded.
C16_FamiliesSortedAndComplete ==
    ga_pc = "idle" =>
        /\ \A i \in 1 .. Len(ga_result) - 1 :
              KeyLt(<<ga_result[i][1], ga_result[i][2]>>,
                    <<ga_result[i + 1][1], ga_result[i + 1][2]>>)
        /\ \A i \in 1 .. Len(ga_result) :
              /\ ga_result[i][3] # << >>
              /\ \A j \in 1 .. Len(ga_result[i][3]) :
                    Metric_key(ga_result[i][3][j]) = <<ga_result[i][1], ga_result[i][2]>>
        /\ \A m \in MetricIds :
              Occurrences(Members(ga_result), m) = Occurrences(ga_metrics, m)

\* A gather has returned two families of the same name, one of them with two
\* members.
C16_Witness ==
    /\ ga_pc = "idle"
    /\ Len(ga_result) = 2
    /\ ga_result[1][1] = ga_result[2][1]
    /\ \E i \in 1 .. 2 : Len(ga_result[i][3]) = 2

\* C17: when a gather() has returned, it has polled every collector that was
\* registered, and not yet removed, when it started (so a collector
\* registered during a gather is polled in that gather or in the next); and
\* while the Gatherer exists every registered collector is either once in the
\* channel, once in the live list, or removed.
C17_RegisteredCollectorsArePolled ==
    /\ ga_pc = "idle" => ga_known \subseteq Range(ga_polled)
    /\ gatherer_alive =>
          \A c \in 1 .. Len(col_metric) :
              Occurrences(channel, c) + Occurrences(collectors, c)
                  + (IF c \in removed THEN 1 ELSE 0) = 1

\* A collector has been registered while a gather was polling, after the
\* channel had been drained.
C17_Witness ==
    /\ ga_pc = "poll"
    /\ ga_i >= 1
    /\ channel # << >>

\* C18 (as claimed): a Registry::register whose send failed, the Gatherer
\* being gone, returns an error of kind Other to its caller.
C18_RegisterReportsSendError ==
    (reg_last # << >> /\ reg_last[1] = "SendError") => reg_last[2] = "Err(Other)"

\* ------------------------------------------------ Numeric operation claims

\* C19 (as claimed): no numeric operation on a metric handle panics, whatever
\* its f64 argument; for Histogram::observe: no thread is ever left panicked.
C19_NumericOperationsNeverPanic ==
    \A t \in Threads : h_pc[t] # "panicked"

\* The calls of track_inprogress that have raised the gauge and not yet
\* lowered it: increment has returned and decrement has not.
InProgress ==
    {t \in Threads :
        \/ tp_pc[t] = "f"
        \/ tp_pc[t] = "increment" /\ g_pc[t] = "idle"
        \/ tp_pc[t] = "decrement" /\ g_pc[t] # "idle"}

\* C20 (as claimed): a gauge that starts at 0 and is mutated only through
\* track_inprogress equals, at every instant, the number of calls in progress,
\* however their f completes, and is 0 when there is none.
C20_GaugeIsNumberOfCallsInProgress ==
    gauge_value = One * Cardinality(InProgress)

\* --------------------------------------------------------- aggregation claims

\* The metrics pushed into the family whose label sequence is the given one.
PushedWith(ls) == SelectSeq(ag_pushed, LAMBDA m : m.labels = ls)

\* The sum of the values of a sequence of metrics, added in order.
RECURSIVE SumOfValues(_)
SumOfValues(s) ==
    IF Len(s) = 1 THEN s[1].value
    ELSE FAdd(SumOfValues(SubSeq(s, 1, Len(s) - 1)), s[Len(s)].value)

AllBuckets == UNION {Range(ab_inners[h]) : h \in 1 .. Len(ab_inners)}
AllBounds == {bk[1] : bk \in AllBuckets}
RECURSIVE CountsAtMost(_, _)
CountsAtMost(buckets, b) ==
    IF buckets = << >> THEN 0
    ELSE (IF FLe(buckets[1][1], b) THEN buckets[1][2] ELSE 0)
         + CountsAtMost(Tail(buckets), b)
RECURSIVE TotalAtMost(_, _)
TotalAtMost(hs, b) ==
    IF hs = << >> THEN 0
    ELSE CountsAtMost(hs[1], b) + TotalAtMost(Tail(hs), b)

\* C22 (as claimed): the aggregated cumulative buckets are one entry per
\* distinct upper bound of the inputs, in strictly ascending order of bound,
\* each with the total of the counts of all input buckets whose bound is <=
\* its own.
C22_OneEntryPerBoundWithTotalAtMost ==
    ab_pc = "done" =>
        /\ {e[1] : e \in Range(ab_yielded)} = AllBounds
        /\ \A i \in 1 .. Len(ab_yielded) - 1 :
              FLt(ab_yielded[i][1], ab_yielded[i + 1][1])
        /\ \A i \in 1 .. Len(ab_yielded) :
              ab_yielded[i][2] = TotalAtMost(ab_inners, ab_yielded[i][1])

\* ----------------------------------------------------------- Timestamp claims

\* C23: get() returns None for a new timestamp and after clear() and Some(t)
\* after a set(t) that set accepts; set(i64::MIN) fails its assertion and
\* leaves the cell as it was; the cell holds the sentinel exactly when the
\* timestamp is unset.
C23_SentinelIffUnset ==
    /\ [](ts_cell = NO_VALUE <=> ts_want = << >>)
    /\ []((ts_last # << >> /\ ts_last[1] = "get") => ts_last[3] = ts_want)
    /\ [][(ts_last'[1] \in {"set", "set_time"} /\ ts_last'[2] = I64Min)
             => (ts_last'[3] = "panicked" /\ ts_cell' = ts_cell)]_vars

\* A set(i64::MIN) refused on a timestamp that holds the value 1.
C23_Witness ==
    /\ ts_last = <<"set", I64Min, "panicked">>
    /\ ts_cell = 1
    /\ ts_want = <<1>>

\* ------------------------------------------------------ ObservedCounter claims

\* C24 (as claimed): every set(c) that returns Ok leaves value() >= the value
\* before the call, or equal to 0; set(c) with c < 0 returns InvalidInput and
\* leaves value() as it was.
C24_ValueGoesUpOrResets ==
    oc_last # << >> =>
        /\ oc_last[2] = "Ok" => (FGe(oc_value, oc_last[3]) \/ oc_value = 0)
        /\ FLt(oc_last[1], 0) => (oc_last[2] = "InvalidInput" /\ oc_value = oc_last[3])

\* ------------------------------------------------------------ rendering claims

\* The escaping of the exposition format: a backslash as two backslashes, a
\* line feed as backslash and n, a double quote as backslash and double
\* quote, every other character as it is.
RECURSIVE EscapedValue(_)
EscapedValue(value) ==
    IF value = << >> THEN << >>
    ELSE (IF value[1] = 92 THEN <<92, 92>>
          ELSE IF value[1] = 10 THEN <<92, 110>>
          ELSE IF value[1] = 34 THEN <<92, 34>>
          ELSE <<value[1]>>) \o EscapedValue(Tail(value))

\* C25 (as claimed): wherever a label is rendered, the text is name="value"
\* with the value escaped as the exposition format prescribes.
C25_LabelValueEscaped ==
    lr_place # "none" =>
        lr_out = lr_label[1] \o <<61, 34>> \o EscapedValue(lr_label[2]) \o <<34>>

\* ----------------------------------------------------- Atomic64::update claims

\* C26 (as claimed): update is wait-free; under fair scheduling every update
\* call that has started returns, whatever the other threads do to the cell.
C26_EveryUpdateReturns ==
    \A t \in Threads : (at_pc[t] # "idle") ~> (at_pc[t] = "idle")

\* C26 (amended): update is lock-free.  A compare_and_swap fails only when the
\* cell no longer holds what the call read, and under fair scheduling every
\* started call returns unless other threads' stores keep taking effect for
\* ever.
C26_UpdateReturnsUnlessOthersKeepStoring ==
    /\ \A t \in Threads :
          \/ []<>(at_pc[t] = "idle")
          \/ []<>(at_event \in Threads \ {t})
    /\ [][\A t \in Threads :
             (at_pc[t] = "cas" /\ at_pc'[t] = "get") => at_cell # at_old[t]]_vars

\* A call that has returned after one of its compare_and_swaps had failed.
C26_Witness ==
    \E t \in Threads : at_pc[t] = "idle" /\ at_retried[t] /\ at_event = t

\* ------------------------------ Histogram read while observed (histogram.rs)

\* The bucket lists of the histograms read: what HistogramBuilder::finish
\* leaves for no and for one call of HistogramBuilder::bucket.
HistReadBounds ==
    {<<PInf>>, <<10 * One, PInf>>}

\* Values given to Histogram::observe while the histogram is read.
HistReadArgs == {7 * One, 52 * One, NaN}

\* A histogram that HistogramBuilder::finish has returned, not yet observed.
HistReadInit ==
    /\ hist_state = "ok"
    /\ hist_bounds \in HistReadBounds
    /\ hb_bounds = hist_bounds
    /\ hist_buckets = [i \in 1 .. Len(hist_bounds) |-> 0]
    /\ hist_count = 0
    /\ hist_sum = 0
    /\ h_pc = [t \in Threads |-> "idle"]
    /\ h_value = [t \in Threads |-> 0]
    /\ h_old = [t \in Threads |-> 0]
    /\ h_calls = 0
    /\ h_seen = [v \in ObservedValues |-> 0]

\* CumulativeBuckets::next: `self.cumulative_count += b.count()`.
CumulativeBuckets_nextLast(cumulative_count, count) == count
CumulativeBuckets_next(cumulative_count, count) ==
    (cumulative_count + count) % Modulus

\* Display for Histogram begins (one rendering in a behaviour):
\* `self.cumulative_buckets()`, with cumulative_count 0 and the iterator at
\* the first bucket.
Histogram_fmt ==
    /\ hist_state = "ok"
    /\ hr_pc = "idle"
    /\ hr_pc' = "buckets"
    /\ hr_i' = 1
    /\ hr_cumulative_count' = 0
    /\ hr_count' = 0
    /\ hr_count0' = hist_count
    /\ OtherThanHistRead

\* One turn of `for bucket in self.cumulative_buckets()`: the load of the
\* next bucket's count; the loop ends with the last bucket.
Histogram_fmt_next ==
    /\ hr_pc = "buckets"
    /\ hr_cumulative_count' =
          CumulativeBuckets_next(hr_cumulative_count, hist_buckets[hr_i])
    /\ IF hr_i = Len(hist_buckets)
       THEN hr_pc' = "sum" /\ hr_i' = hr_i
       ELSE hr_pc' = "buckets" /\ hr_i' = hr_i + 1
    /\ UNCHANGED <<hr_count, hr_count0>>
    /\ OtherThanHistRead

\* `MetricValue(self.sum())` of the _sum line.
Histogram_fmt_sum ==
    /\ hr_pc = "sum"
    /\ hr_pc' = "count"
    /\ UNCHANGED <<hr_i, hr_cumulative_count, hr_count, hr_count0>>
    /\ OtherThanHistRead

\* `self.count()` of the _count line; fmt returns.
Histogram_fmt_count ==
    /\ hr_pc = "count"
    /\ hr_count' = hist_count
    /\ hr_pc' = "done"
    /\ UNCHANGED <<hr_i, hr_cumulative_count, hr_count0>>
    /\ OtherThanHistRead

HistReadNext ==
    \/ \E t \in Threads, v \in HistReadArgs : Histogram_observe_nan(t, v)
    \/ \E t \in Threads, v \in HistReadArgs : Histogram_observe(t, v)
    \/ \E t \in Threads : Histogram_observe_count(t)
    \/ \E t \in Threads : Histogram_sum_get(t)
    \/ \E t \in Threads : Histogram_sum_cas(t)
    \/ Histogram_fmt
    \/ Histogram_fmt_next
    \/ Histogram_fmt_sum
    \/ Histogram_fmt_count

\* One histogram, observed by NumThreads threads while another thread renders
\* it.
HistReadSpecInit ==
    HistReadInit /\ CounterInit /\ GaugeOff /\ SummaryOff /\ LabelsOff /\ IterInit
    /\ RegistryInit
    /\ AggregateOff
    /\ AggBucketsOff
    /\ TimestampInit
    /\ ObservedInit
    /\ RenderOff
    /\ UpdateInit
    /\ HistReadOff
    /\ SumObserveOff
    /\ LabelsConcOff
    /\ LabelRefOff
    /\ CounterReadInit
    /\ BuilderOff
    /\ GatherInit

SpecHistRead == HistReadSpecInit /\ [][HistReadNext]_vars

\* C27: a read of the histogram is not atomic with a concurrent observe: the
\* +Inf cumulative count that a rendering wrote is never below count() as it
\* was when the rendering began, so the count that the rendering writes
\* exceeds it only by observes that ran during the rendering, and such a
\* rendering exists (the witness).
C27_ReadCountExceedsBucketsOnlyByConcurrentObserves ==
    hr_pc \in {"sum", "count", "done"} => hr_cumulative_count >= hr_count0

\* A rendering has returned whose _count line is above its +Inf bucket line.
C27_Witness ==
    /\ hr_pc = "done"
    /\ hr_count > hr_cumulative_count
    /\ \E t \in Threads : h_pc[t] # "idle"

\* C29: the quantiles of every summary that SummaryBuilder::finish returned
\* are sorted ascending and hold no value twice, whatever calls of
\* SummaryBuilder::quantile came before.
C29_QuantilesSortedAndDeduplicated ==
    sum_state = "ok" =>
        \A i, j \in DOMAIN sum_quantiles :
            i < j => FLt(sum_quantiles[i], sum_quantiles[j])

\* --------------------------- Summary observed through clones (summary.rs)

\* Values given to Summary::observe by the threads.
SumObserveArgs == {7 * One, 10 * One}

\* A summary that SummaryBuilder::finish has returned (no quantiles), cloned
\* once for every thread.
SumObserveInit ==
    /\ sb_quantiles = << >>
    /\ sum_state = "ok"
    /\ sum_window \in SummaryWindows
    /\ sum_quantiles = << >>
    /\ sum_samples = << >>
    /\ sum_count = 0
    /\ sum_sum = 0
    /\ s_now = 0
    /\ s_observed = 0
    /\ s_total = 0
    /\ s_last = "new"
    /\ s_result = << >>

\* Summary::observe begins: with_current_samples takes `SystemTime::now()`
\* before it asks for the lock.
Summary_observe_now(t, value) ==
    /\ sum_state = "ok"
    /\ so_pc[t] = "idle"
    /\ s_observed < MaxCalls
    /\ so_pc' = [so_pc EXCEPT ![t] = "lock"]
    /\ so_now' = [so_now EXCEPT ![t] = s_now]
    /\ so_value' = [so_value EXCEPT ![t] = value]
    /\ s_observed' = s_observed + 1
    /\ s_total' = FAdd(s_total, value)
    /\ UNCHANGED so_old
    /\ UNCHANGED <<sb_quantiles, sum_state, sum_window, sum_quantiles,
                   sum_samples, sum_count, sum_sum, s_now, s_last, s_result>>
    /\ OtherThanSummaryObserve

\* with_current_samples under the lock of Inner.samples: the front samples
\* older than the window, measured from the thread's own `now`, are popped
\* and the closure of observe pushes (now, value) at the back.
Summary_observe_locked(t) ==
    /\ so_pc[t] = "lock"
    /\ sum_samples' = Append(CurrentSamples(sum_samples, so_now[t], sum_window),
                             <<so_now[t], so_value[t]>>)
    /\ so_pc' = [so_pc EXCEPT ![t] = "count"]
    /\ s_last' = "observe"
    /\ UNCHANGED <<so_now, so_value, so_old>>
    /\ UNCHANGED <<sb_quantiles, sum_state, sum_window, sum_quantiles,
                   sum_count, sum_sum, s_now, s_observed, s_total, s_result>>
    /\ OtherThanSummaryObserve

\* Summary::observe: `self.0.count.inc()`.
Summary_observe_count(t) ==
    /\ so_pc[t] = "count"
    /\ sum_count' = FetchAdd(sum_count, 1)
    /\ so_pc' = [so_pc EXCEPT ![t] = "get"]
    /\ UNCHANGED <<so_now, so_value, so_old>>
    /\ UNCHANGED <<sb_quantiles, sum_state, sum_window, sum_quantiles,
                   sum_samples, sum_sum, s_now, s_observed, s_total, s_last,
                   s_result>>
    /\ OtherThanSummaryObserve

\* Summary::observe: `self.0.sum.update(|v| v + value)`, the read of the
\* update loop.
Summary_sum_get(t) ==
    /\ so_pc[t] = "get"
    /\ so_old' = [so_old EXCEPT ![t] = sum_sum]
    /\ so_pc' = [so_pc EXCEPT ![t] = "cas"]
    /\ UNCHANGED <<so_now, so_value>>
    /\ UNCHANGED <<sb_quantiles, sum_state, sum_window, sum_quantiles,
                   sum_samples, sum_count, sum_sum, s_now, s_observed, s_total,
                   s_last, s_result>>
    /\ OtherThanSummaryObserve

\* ... and its compare_and_swap; observe returns when the swap took place.
Summary_sum_cas(t) ==
    /\ so_pc[t] = "cas"
    /\ IF CasSucceeds(sum_sum, so_old[t])
       THEN /\ sum_sum' = FAdd(so_old[t], so_value[t])
            /\ so_pc' = [so_pc EXCEPT ![t] = "idle"]
            /\ so_now' = [so_now EXCEPT ![t] = 0]
            /\ so_value' = [so_value EXCEPT ![t] = 0]
            /\ so_old' = [so_old EXCEPT ![t] = 0]
       ELSE /\ so_pc' = [so_pc EXCEPT ![t] = "get"]
            /\ UNCHANGED <<sum_sum, so_now, so_value, so_old>>
    /\ UNCHANGED <<sb_quantiles, sum_state, sum_window, sum_quantiles,
                   sum_samples, sum_count, s_now, s_observed, s_total, s_last,
                   s_result>>
    /\ OtherThanSummaryObserve

SumObserveNext ==
    \/ Clock_tick
    \/ \E t \in Threads, v \in SumObserveArgs : Summary_observe_now(t, v)
    \/ \E t \in Threads : Summary_observe_locked(t)
    \/ \E t \in Threads : Summary_observe_count(t)
    \/ \E t \in Threads : Summary_sum_get(t)
    \/ \E t \in Threads : Summary_sum_cas(t)

\* One summary, observed by NumThreads threads through their clones while
\* time passes.
SumObserveSpecInit ==
    SumObserveInit /\ CounterInit /\ GaugeOff /\ HistogramOff /\ LabelsOff /\ IterInit
    /\ RegistryInit
    /\ AggregateOff
    /\ AggBucketsOff
    /\ TimestampInit
    /\ ObservedInit
    /\ RenderOff
    /\ UpdateInit
    /\ HistReadOff
    /\ SumObserveOff
    /\ LabelsConcOff
    /\ LabelRefOff
    /\ CounterReadInit
    /\ BuilderOff
    /\ GatherInit

SpecSumObserve == SumObserveSpecInit /\ [][SumObserveNext]_vars

\* C28: the sample queue of a summary is time-ordered in every reachable
\* state, also under concurrent observes: the timestamps do not decrease from
\* front to back.
C28_SamplesTimeOrdered ==
    \A i, j \in DOMAIN sum_samples :
        i < j => sum_samples[i][1] <= sum_samples[j][1]

\* ------------------------------ Labels edited through clones (label.rs)

\* The names and values the threads use; none is reserved (the labels of a
\* counter or of a gauge: LabelsMut::new(labels, None)).
ConcNames == {NameL, NameLe, NameQuantile}
ConcValues == {<<120>>, <<121>>}

\* The labels of a metric whose builder was given no label or one label.
LabelsConcInit ==
    /\ lc_labels \in {<< >>} \cup {<<<<n, <<120>>>>>> : n \in ConcNames}
    /\ lc_ptr = 0
    /\ lc_pc = [t \in Threads |-> "idle"]
    /\ lc_op = [t \in Threads |-> << >>]
    /\ lc_old = [t \in Threads |-> << >>]
    /\ lc_old_ptr = [t \in Threads |-> 0]
    /\ lc_calls = 0
    /\ lc_retried = [t \in Threads |-> FALSE]
    /\ lc_want = [n \in ConcNames |->
                    IF \E i \in DOMAIN lc_labels : lc_labels[i][1] = n
                    THEN <<<<120>>>> ELSE << >>]

\* The compare-and-swap of AtomicImmut::update: it installs the new vector
\* when the cell still holds the Arc that the call loaded.
AtomicImmut_cas_succeedsAlways(current, old) == TRUE
AtomicImmut_cas_succeeds(current, old) == current = old

\* LabelsMut::insert: no name is reserved; Label::new validates the name; then
\* AtomicImmut::update is entered.
LabelsMut_insert_call(t, name, value) ==
    /\ lc_pc[t] = "idle"
    /\ lc_calls < MaxCalls
    /\ ~IsReserved(name, << >>)
    /\ Label_validate_name(name)
    /\ lc_calls' = lc_calls + 1
    /\ lc_pc' = [lc_pc EXCEPT ![t] = "load"]
    /\ lc_op' = [lc_op EXCEPT ![t] = <<"insert", name, value>>]
    /\ lc_retried' = [lc_retried EXCEPT ![t] = FALSE]
    /\ UNCHANGED <<lc_labels, lc_ptr, lc_old, lc_old_ptr, lc_want>>
    /\ OtherThanLabelsConc

\* LabelsMut::remove: enters AtomicImmut::update.
LabelsMut_remove_call(t, name) ==
    /\ lc_pc[t] = "idle"
    /\ lc_calls < MaxCalls
    /\ lc_calls' = lc_calls + 1
    /\ lc_pc' = [lc_pc EXCEPT ![t] = "load"]
    /\ lc_op' = [lc_op EXCEPT ![t] = <<"remove", name>>]
    /\ lc_retried' = [lc_retried EXCEPT ![t] = FALSE]
    /\ UNCHANGED <<lc_labels, lc_ptr, lc_old, lc_old_ptr, lc_want>>
    /\ OtherThanLabelsConc

\* AtomicImmut::update: the load of the current vector.
AtomicImmut_update_loop_load(t) ==
    /\ lc_pc[t] = "load"
    /\ lc_old' = [lc_old EXCEPT ![t] = lc_labels]
    /\ lc_old_ptr' = [lc_old_ptr EXCEPT ![t] = lc_ptr]
    /\ lc_pc' = [lc_pc EXCEPT ![t] = "cas"]
    /\ UNCHANGED <<lc_labels, lc_ptr, lc_op, lc_calls, lc_retried, lc_want>>
    /\ OtherThanLabelsConc

\* AtomicImmut::update: the closure applied to the loaded vector, and the
\* compare-and-swap; the loop starts over when the swap did not take place.
AtomicImmut_update_loop_cas(t) ==
    /\ lc_pc[t] = "cas"
    /\ IF AtomicImmut_cas_succeeds(lc_ptr, lc_old_ptr[t])
       THEN /\ lc_labels' = IF lc_op[t][1] = "insert"
                            THEN LabelsMut_insert_f(lc_old[t], <<lc_op[t][2], lc_op[t][3]>>)
                            ELSE LabelsMut_remove_f(lc_old[t], lc_op[t][2])
            /\ lc_ptr' = lc_ptr + 1
            /\ lc_pc' = [lc_pc EXCEPT ![t] = "idle"]
            /\ lc_op' = [lc_op EXCEPT ![t] = << >>]
            /\ lc_old' = [lc_old EXCEPT ![t] = << >>]
            /\ lc_old_ptr' = [lc_old_ptr EXCEPT ![t] = 0]
            /\ lc_want' = [lc_want EXCEPT ![lc_op[t][2]] =
                              IF lc_op[t][1] = "insert" THEN <<lc_op[t][3]>>
                              ELSE << >>]
            /\ UNCHANGED lc_retried
       ELSE /\ lc_pc' = [lc_pc EXCEPT ![t] = "load"]
            /\ lc_retried' = [lc_retried EXCEPT ![t] = TRUE]
            /\ UNCHANGED <<lc_labels, lc_ptr, lc_op, lc_old, lc_old_ptr, lc_want>>
    /\ UNCHANGED lc_calls
    /\ OtherThanLabelsConc

\* LabelsMut::clear: stores an empty vector.
LabelsMut_clear_call(t) ==
    /\ lc_pc[t] = "idle"
    /\ lc_calls < MaxCalls
    /\ lc_calls' = lc_calls + 1
    /\ lc_labels' = << >>
    /\ lc_ptr' = lc_ptr + 1
    /\ lc_want' = [n \in ConcNames |-> << >>]
    /\ UNCHANGED <<lc_pc, lc_op, lc_old, lc_old_ptr, lc_retried>>
    /\ OtherThanLabelsConc

LabelsConcNext ==
    \/ \E t \in Threads, n \in ConcNames, v \in ConcValues :
          LabelsMut_insert_call(t, n, v)
    \/ \E t \in Threads, n \in ConcNames : LabelsMut_remove_call(t, n)
    \/ \E t \in Threads : AtomicImmut_update_loop_load(t)
    \/ \E t \in Threads : AtomicImmut_update_loop_cas(t)
    \/ \E t \in Threads : LabelsMut_clear_call(t)

\* The labels of one metric, edited by NumThreads threads through their
\* clones of the metric.
LabelsConcSpecInit ==
    LabelsConcInit /\ CounterInit /\ GaugeOff /\ HistogramOff /\ SummaryOff
    /\ LabelsOff /\ IterInit
    /\ RegistryInit
    /\ AggregateOff
    /\ AggBucketsOff
    /\ TimestampInit
    /\ ObservedInit
    /\ RenderOff
    /\ UpdateInit
    /\ HistReadOff
    /\ SumObserveOff
    /\ LabelRefOff
    /\ CounterReadInit
    /\ BuilderOff
    /\ GatherInit

SpecLabelsConc == LabelsConcSpecInit /\ [][LabelsConcNext]_vars

\* The values the vector holds for a name.
ValuesOf(s, name) == {s[i][2] : i \in {j \in DOMAIN s : s[j][1] = name}}

\* C30: concurrent label edits are not lost: the vector holds for every name
\* exactly what the edits that took effect so far leave for that name (the
\* value of the last insert of the name, nothing after a remove of the name
\* or a clear), whatever edits of other names ran at the same time; so two
\* concurrent inserts of different names leave both labels, and an insert
\* concurrent with a remove of another name leaves the inserted label in and
\* the removed one out.
C30_ConcurrentEditsAreNotLost ==
    \A n \in ConcNames : ValuesOf(lc_labels, n) = Range(lc_want[n])

\* Two inserts of different names ran at the same time and have both
\* returned, one of them after a failed compare-and-swap; both labels are in
\* the vector.
C30_Witness ==
    /\ lc_calls = 2
    /\ \A t \in Threads : lc_pc[t] = "idle"
    /\ \E t \in Threads : lc_retried[t]
    /\ lc_ptr = 2
    /\ \E n1, n2 \in ConcNames :
          /\ n1 # n2
          /\ lc_want[n1] = <<<<121>>>> /\ lc_want[n2] = <<<<121>>>>
          /\ ValuesOf(lc_labels, n1) = {<<121>>}
          /\ ValuesOf(lc_labels, n2) = {<<121>>}
          /\ Len(lc_labels) = 2

\* --------------------- References into the labels (label.rs, Labels / Iter)

\* The most snapshots the writers install.
MaxSnapshots == 3

\* The names and the value the writers and the reader use.
RefNames == {NameL, NameLe}
RefValue == <<120>>

\* What a read through a reference into freed memory may give: any label, or
\* a fault.
FreedReads == {<<n, RefValue>> : n \in RefNames} \cup {<<"fault">>}

\* Labels::new(labels): the first snapshot, held by the AtomicImmut alone.
LabelRefInit ==
    /\ rf_cell = 1
    /\ rf_vec \in {<< <<<<NameL, RefValue>>>> >>,
                   << <<<<NameL, RefValue>>, <<NameLe, RefValue>>>> >>}
    /\ rf_strong = <<1>>
    /\ rf_freed = {}
    /\ rd_iter = 0
    /\ rd_pos = 0
    /\ rd_ref = << >>
    /\ rd_read = << >>

\* Drop of an Arc of snapshot k: the strong count after it, and the freed
\* snapshots after it (the vector is freed with its last Arc).
Arc_drop_strong(strong, k) == [strong EXCEPT ![k] = @ - 1]
Arc_drop_freed(strong, freed, k) ==
    IF strong[k] = 1 THEN freed \cup {k} ELSE freed

\* The index of the label of that name in the vector, 0 for none:
\* `find(|l| l.name() == name)`.
Iter_find(s, name) ==
    IF \E i \in DOMAIN s : s[i][1] = name
    THEN CHOOSE i \in DOMAIN s : s[i][1] = name /\ \A j \in 1 .. i - 1 : s[j][1] # name
    ELSE 0

\* Labels::get(name): `self.iter().find(..)`: iter() loads the Arc of the
\* current snapshot, find walks its slice, and the Iter, with its Arc, is
\* dropped when get returns; the &Label returned points into that snapshot.
Labels_get(name) ==
    /\ rd_iter = 0
    /\ LET i == Iter_find(rf_vec[rf_cell], name)
       IN  rd_ref' = IF i = 0 THEN << >> ELSE <<rf_cell, i>>
    /\ rd_read' = << >>
    /\ UNCHANGED <<rf_cell, rf_vec, rf_strong, rf_freed, rd_iter, rd_pos>>
    /\ OtherThanLabelRef

\* Labels::iter: `self.0.load()` clones the Arc of the current snapshot and
\* the slice iterator is transmuted to the lifetime of the borrow.
Labels_iter_arc ==
    /\ rd_iter = 0
    /\ rd_iter' = rf_cell
    /\ rd_pos' = 0
    /\ rf_strong' = [rf_strong EXCEPT ![rf_cell] = @ + 1]
    /\ UNCHANGED <<rf_cell, rf_vec, rf_freed, rd_ref, rd_read>>
    /\ OtherThanLabelRef

\* Iter::next: `self.inner.next()`; the reader keeps the &'a Label yielded.
Iter_next_ref ==
    /\ rd_iter # 0
    /\ rd_pos < Len(rf_vec[rd_iter])
    /\ rd_pos' = rd_pos + 1
    /\ rd_ref' = <<rd_iter, rd_pos + 1>>
    /\ rd_read' = << >>
    /\ UNCHANGED <<rf_cell, rf_vec, rf_strong, rf_freed, rd_iter>>
    /\ OtherThanLabelRef

\* The reader drops the Iter: its Arc goes, the references it yielded stay
\* with the reader.
Iter_drop ==
    /\ rd_iter # 0
    /\ rf_strong' = Arc_drop_strong(rf_strong, rd_iter)
    /\ rf_freed' = Arc_drop_freed(rf_strong, rf_freed, rd_iter)
    /\ rd_iter' = 0
    /\ rd_pos' = 0
    /\ UNCHANGED <<rf_cell, rf_vec, rd_ref, rd_read>>
    /\ OtherThanLabelRef

\* The edits the other clones make, and the vector each leaves: the closures
\* of LabelsMut::insert and LabelsMut::remove, and the empty vector of clear.
RefEdits ==
    {<<"insert", n>> : n \in RefNames} \cup {<<"remove", n>> : n \in RefNames}
        \cup {<<"clear">>}

LabelsMut_edit_f(s, edit) ==
    IF edit[1] = "insert" THEN LabelsMut_insert_f(s, <<edit[2], RefValue>>)
    ELSE IF edit[1] = "remove" THEN LabelsMut_remove_f(s, edit[2])
    ELSE << >>

\* LabelsMut::insert, remove or clear on another clone of the metric, at the
\* point its new vector is installed: a new snapshot is the current one and
\* the Arc that the AtomicImmut held of the old one is dropped.
AtomicImmut_store(edit) ==
    /\ Len(rf_vec) < MaxSnapshots
    /\ rf_vec' = Append(rf_vec, LabelsMut_edit_f(rf_vec[rf_cell], edit))
    /\ rf_cell' = Len(rf_vec) + 1
    /\ rf_strong' = Append(Arc_drop_strong(rf_strong, rf_cell), 1)
    /\ rf_freed' = Arc_drop_freed(rf_strong, rf_freed, rf_cell)
    /\ UNCHANGED <<rd_iter, rd_pos, rd_ref, rd_read>>
    /\ OtherThanLabelRef

\* The reader uses the reference it keeps, `label.name()` or `label.value()`,
\* while its borrow of the Labels lasts: the label when the snapshot is
\* alive; anything when it has been freed.
Label_deref(outcome) ==
    /\ rd_ref # << >>
    /\ IF rd_ref[1] \in rf_freed
       THEN rd_read' = outcome
       ELSE rd_read' = rf_vec[rd_ref[1]][rd_ref[2]]
    /\ UNCHANGED <<rf_cell, rf_vec, rf_strong, rf_freed, rd_iter, rd_pos, rd_ref>>
    /\ OtherThanLabelRef

\* The borrow of the Labels ends: the reader's reference is gone.
Label_ref_end ==
    /\ rd_ref # << >>
    /\ rd_ref' = << >>
    /\ rd_read' = << >>
    /\ UNCHANGED <<rf_cell, rf_vec, rf_strong, rf_freed, rd_iter, rd_pos>>
    /\ OtherThanLabelRef

LabelRefNext ==
    \/ \E n \in RefNames : Labels_get(n)
    \/ Labels_iter_arc
    \/ Iter_next_ref
    \/ Iter_drop
    \/ \E e \in RefEdits : AtomicImmut_store(e)
    \/ \E o \in FreedReads : Label_deref(o)
    \/ Label_ref_end

\* The labels of one metric: one thread reads them through Labels::get and
\* Labels::iter while other clones of the metric edit them.
LabelRefSpecInit ==
    LabelRefInit /\ CounterInit /\ GaugeOff /\ HistogramOff /\ SummaryOff
    /\ LabelsOff /\ IterInit
    /\ RegistryInit
    /\ AggregateOff
    /\ AggBucketsOff
    /\ TimestampInit
    /\ ObservedInit
    /\ RenderOff
    /\ UpdateInit
    /\ HistReadOff
    /\ SumObserveOff
    /\ LabelsConcOff
    /\ CounterReadInit
    /\ BuilderOff
    /\ GatherInit

SpecLabelRef == LabelRefSpecInit /\ [][LabelRefNext]_vars

\* C31: a reference that Labels::get returned or Labels::iter yielded never
\* points into a snapshot that has been freed, for as long as the reader
\* keeps it.
C31_ReferencesPointIntoLiveSnapshots ==
    rd_ref # << >> => rd_ref[1] \notin rf_freed

\* While an Iter is alive, what it yielded is alive: the Arc it holds keeps
\* the snapshot.
ReferencesLiveWhileIterLives ==
    (rd_ref # << >> /\ rd_iter = rd_ref[1]) => rd_ref[1] \notin rf_freed

\* ------------------------------------------ Snapshots of gather (registry.rs)

\* The metric is in the MetricFamilies the application holds and the
\* application holds no handle of it.
HeldBySnapshotOnly(m) ==
    /\ app_handles[m] = 0
    /\ snap_held
    /\ Occurrences(Members(ga_result), m) > 0

\* C32 (as claimed): a collector is removed only by a gather() that started
\* after the application had dropped every handle of the metric and every
\* MetricFamilies holding it: whenever a collector has been removed, a gather
\* has started at a time when nothing held its metric.
C32_PrunedOnlyByGatherStartedAfterDrops ==
    \A c \in removed : freeStart[col_metric[c]]

\* C32 (amended): a poll of a collector whose metric is held by nothing but a
\* MetricFamilies yields the metric and keeps the collector, so the gather
\* reports the metric; and a collector is removed only by a poll that takes
\* place when neither a handle, nor a MetricFamilies, nor the gather's own
\* vector holds its metric, whenever that gather started.
C32_SnapshotKeepsMetricUntilPolledUnheld ==
    [][ga_polled' # ga_polled /\ ga_polled' # << >> =>
          LET c == ga_polled'[Len(ga_polled')]
              m == col_metric[c]
          IN  /\ HeldBySnapshotOnly(m) =>
                    /\ ga_metrics' = Append(ga_metrics, m)
                    /\ c \in Range(collectors')
                    /\ c \notin removed'
              /\ c \in removed' =>
                    /\ app_handles[m] = 0
                    /\ ~(snap_held /\ Occurrences(Members(ga_result), m) > 0)
                    /\ Occurrences(ga_metrics, m) = 0]_vars

\* A gather that started after the application had dropped its last handle
\* of a metric has returned the metric, and the application holds the
\* MetricFamilies with it.
C32_Witness ==
    /\ ga_pc = "idle"
    /\ \E m \in MetricIds :
          /\ HeldBySnapshotOnly(m)
          /\ afterDrop[m] >= 1
          /\ \E c \in Range(collectors) : col_metric[c] = m

\* ------------------------------------- Histogram counters (histogram.rs)

\* The sum of all bucket counters, and the threads that are inside
\* Histogram::observe.
BucketTotal == CumulativeCount(hist_buckets, Len(hist_buckets))
Observing == {t \in Threads : h_pc[t] \in {"count", "get", "cas"}}

\* C33: in every state of a histogram the sum of all bucket counters is at
\* least the count accumulator and exceeds it by at most the number of
\* observe calls in progress (by exactly the number of calls that have
\* incremented their bucket and not yet the count).
C33_BucketTotalLeadsCount ==
    hist_state = "ok" =>
        /\ BucketTotal >= hist_count
        /\ BucketTotal - hist_count <= Cardinality(Observing)
        /\ BucketTotal - hist_count = Cardinality({t \in Threads : h_pc[t] = "count"})

\* Two observe calls have incremented their buckets and neither has
\* incremented the count, after an observe that has returned.
C33_Witness ==
    /\ hist_state = "ok"
    /\ hist_count >= 1
    /\ BucketTotal = hist_count + 2
    /\ Cardinality(Observing) = 2

\* ----------------------- Counter::value during additions (counter.rs, Value)

\* Counts given to Counter::add: a fractional one, an integral one and one the
\* guard refuses.
CounterReadArgs == {Half, One, 0 - Half}

\* Counter::increment: Value::increment, one fetch_add of 1; the call starts
\* and returns around it.
Value_increment(t) ==
    /\ cv_pc[t] = "idle"
    /\ cv_calls < MaxCalls
    /\ cv_calls' = cv_calls + 1
    /\ cv_u64' = FetchAdd(cv_u64, 1)
    /\ cv_started' = cv_started + One
    /\ cv_completed' = cv_completed + One
    /\ UNCHANGED <<cv_f64, cv_pc, cv_count, cv_old, cr_pc, cr_f64, cr_value,
                   cr_low, cr_high>>
    /\ OtherThanCounterRead

\* Counter::add: the guard, then Value::add: the integer path is one
\* fetch_add of floor as u64, the float path enters the update loop of
\* AtomicF64::add.
Value_add(t, count) ==
    /\ cv_pc[t] = "idle"
    /\ cv_calls < MaxCalls
    /\ cv_calls' = cv_calls + 1
    /\ IF ~Counter_add_accepts(count)
       THEN UNCHANGED <<cv_f64, cv_u64, cv_pc, cv_count, cv_old, cv_started,
                        cv_completed>>
       ELSE IF Value_add_isIntegral(count)
       THEN /\ cv_u64' = FetchAdd(cv_u64, CastU64(FFloor(count)))
            /\ cv_started' = cv_started + count
            /\ cv_completed' = cv_completed + count
            /\ UNCHANGED <<cv_f64, cv_pc, cv_count, cv_old>>
       ELSE /\ cv_pc' = [cv_pc EXCEPT ![t] = "get"]
            /\ cv_count' = [cv_count EXCEPT ![t] = count]
            /\ cv_started' = cv_started + count
            /\ UNCHANGED <<cv_f64, cv_u64, cv_old, cv_completed>>
    /\ UNCHANGED <<cr_pc, cr_f64, cr_value, cr_low, cr_high>>
    /\ OtherThanCounterRead

\* Atomic64::update on Value.f64: `let old = self.get()`.
Value_f64_get(t) ==
    /\ cv_pc[t] = "get"
    /\ cv_old' = [cv_old EXCEPT ![t] = cv_f64]
    /\ cv_pc' = [cv_pc EXCEPT ![t] = "cas"]
    /\ UNCHANGED <<cv_f64, cv_u64, cv_count, cv_calls, cv_started, cv_completed,
                   cr_pc, cr_f64, cr_value, cr_low, cr_high>>
    /\ OtherThanCounterRead

\* Atomic64::update on Value.f64: the compare_and_swap; a failure loops, a
\* success ends Counter::add.
Value_f64_cas(t) ==
    /\ cv_pc[t] = "cas"
    /\ IF CasSucceeds(cv_f64, cv_old[t])
       THEN /\ cv_f64' = AtomicF64_add_f(cv_old[t], cv_count[t])
            /\ cv_pc' = [cv_pc EXCEPT ![t] = "idle"]
            /\ cv_completed' = cv_completed + cv_count[t]
            /\ cv_count' = [cv_count EXCEPT ![t] = 0]
            /\ cv_old' = [cv_old EXCEPT ![t] = 0]
       ELSE /\ cv_pc' = [cv_pc EXCEPT ![t] = "get"]
            /\ UNCHANGED <<cv_f64, cv_completed, cv_count, cv_old>>
    /\ UNCHANGED <<cv_u64, cv_calls, cv_started, cr_pc, cr_f64, cr_value, cr_low,
                   cr_high>>
    /\ OtherThanCounterRead

\* A Value::get that leaves the float accumulator out of the sum.
Value_get_integerOnly(f, u) == U64ToF64(u)

\* Value::get as the code runs it: the two loads, the float accumulator
\* first.
Value_get_loads(f, u) == Value_get(f, u)

\* Counter::value is called; first load of Value::get: self.f64.get().
Value_get_f64 ==
    /\ cr_pc \in {"idle", "done"}
    /\ cr_f64' = cv_f64
    /\ cr_low' = cv_completed
    /\ cr_pc' = "u64"
    /\ cr_value' = 0
    /\ cr_high' = 0
    /\ UNCHANGED <<cv_f64, cv_u64, cv_pc, cv_count, cv_old, cv_calls, cv_started,
                   cv_completed>>
    /\ OtherThanCounterRead

\* Second load of Value::get: self.u64.get() as f64, the sum; value returns.
Value_get_u64 ==
    /\ cr_pc = "u64"
    /\ cr_value' = Value_get_loads(cr_f64, cv_u64)
    /\ cr_high' = cv_started
    /\ cr_pc' = "done"
    /\ cr_f64' = 0
    /\ UNCHANGED <<cv_f64, cv_u64, cv_pc, cv_count, cv_old, cv_calls, cv_started,
                   cv_completed, cr_low>>
    /\ OtherThanCounterRead

CounterReadNext ==
    \/ \E t \in Threads : Value_increment(t)
    \/ \E t \in Threads, c \in CounterReadArgs : Value_add(t, c)
    \/ \E t \in Threads : Value_f64_get(t)
    \/ \E t \in Threads : Value_f64_cas(t)
    \/ Value_get_f64
    \/ Value_get_u64

\* One counter, added to by NumThreads threads and read by one more.
CounterReadSpecInit ==
    CounterReadInit /\ CounterInit /\ GaugeOff /\ HistogramOff /\ SummaryOff
    /\ LabelsOff /\ IterInit
    /\ RegistryInit
    /\ AggregateOff
    /\ AggBucketsOff
    /\ TimestampInit
    /\ ObservedInit
    /\ RenderOff
    /\ UpdateInit
    /\ HistReadOff
    /\ SumObserveOff
    /\ LabelsConcOff
    /\ LabelRefOff
    /\ BuilderOff
    /\ GatherInit

SpecCounterRead == CounterReadSpecInit /\ [][CounterReadNext]_vars

\* C34: what Counter::value() returns is at least the total of the additions
\* that had returned before the call started and at most the total of the
\* additions that had started before it returned.
C34_ValueBetweenCompletedAndStarted ==
    cr_pc = "done" => cr_low <= cr_value /\ cr_value <= cr_high

\* A value() has returned that saw an integer addition made between its two
\* loads and missed a float addition made there: it lies strictly between
\* its two bounds.
C34_Witness ==
    /\ cr_pc = "done"
    /\ cr_low < cr_value
    /\ cr_value < cr_high
    /\ cv_f64 # 0
    /\ cv_u64 # 0

\* ------------------- finish() of the builders (counter.rs, histogram.rs,
\* ------------------- summary.rs)

\* Bounds of the builder: label() calls, bucket() / quantile() calls and
\* finish() calls.
MaxBuilderLabels == 1
MaxBuilderValues == 1
MaxFinishes == 2

BuilderKinds == {"counter", "histogram", "summary"}
\* Namespaces: None and "b".
BuilderNamespaces == {NoName, NameB}
\* Names: "a", "" and "-".
NameDash == <<45>>
BuilderNames == {NameA, << >>, NameDash}
\* Label names: "l", "le", "quantile" and "__a".
BuilderLabelNames == {NameL, NameLe, NameQuantile, NameReserved}
\* Bucket bounds and quantiles: 0.5, 2.0 and NaN.
BuilderValues == {Half, 2 * One, NaN}

\* CounterBuilder::new and the others: only the name, and the namespace set
\* by namespace().
BuilderInit ==
    /\ bf_kind \in BuilderKinds
    /\ bf_namespace \in BuilderNamespaces
    /\ bf_name \in BuilderNames
    /\ bf_labels = << >>
    /\ bf_values = << >>
    /\ bf_registries = << >>
    /\ bf_pc = "builder"
    /\ bf_i = 0
    /\ bf_calls = 0
    /\ bf_channel = [r \in RegistryIds |-> << >>]
    /\ bf_collectors = [r \in RegistryIds |-> << >>]
    /\ bf_before = [r \in RegistryIds |-> 0]
    /\ bf_checked = "none"

Colon == 58

\* MetricName::new: the parts that are there, joined with "_".
MetricName_fullname(namespace, name) ==
    IF namespace = NoName THEN name ELSE namespace \o <<Underscore>> \o name

\* validate_metric_name: [a-zA-Z_:][a-zA-Z0-9_:]*.
validate_metric_name(name) ==
    /\ name # << >>
    /\ IsLetter(name[1]) \/ name[1] = Underscore \/ name[1] = Colon
    /\ \A i \in 2 .. Len(name) :
          \/ IsLetter(name[i])
          \/ IsDigit(name[i])
          \/ name[i] = Underscore
          \/ name[i] = Colon

\* The label name a builder refuses with track_assert_ne!: "le" for a
\* histogram, "quantile" for a summary, none for a counter.
Builder_reserved(kind) ==
    IF kind = "histogram" THEN NameLe
    ELSE IF kind = "summary" THEN NameQuantile
    ELSE NoName

\* What a finish() checks before it builds the metric: the name, every label
\* name, and every bucket bound (Bucket::new) or quantile (Quantile::new).
Builder_finish_validates(kind, namespace, name, labelNames, values) ==
    /\ validate_metric_name(MetricName_fullname(namespace, name))
    /\ \A i \in 1 .. Len(labelNames) :
          /\ labelNames[i] # Builder_reserved(kind)
          /\ Label_validate_name(labelNames[i])
    /\ kind = "histogram" => \A i \in 1 .. Len(values) : ~IsNaN(values[i])
    /\ kind = "summary" =>
          \A i \in 1 .. Len(values) : Quantile_new_accepts(values[i])

\* The collectors a registry holds: those in its channel and those its
\* gatherer has received.
Registry_held(r) == Len(bf_channel[r]) + Len(bf_collectors[r])

\* label() of a builder, between two calls of finish().
Builder_label(name) ==
    /\ bf_pc # "register"
    /\ Len(bf_labels) < MaxBuilderLabels
    /\ bf_labels' = Append(bf_labels, name)
    /\ UNCHANGED <<bf_kind, bf_namespace, bf_name, bf_values, bf_registries,
                   bf_pc, bf_i, bf_calls, bf_channel, bf_collectors, bf_before, bf_checked>>
    /\ OtherThanBuilder

\* HistogramBuilder::bucket / SummaryBuilder::quantile.
Builder_value(value) ==
    /\ bf_pc # "register"
    /\ bf_kind \in {"histogram", "summary"}
    /\ Len(bf_values) < MaxBuilderValues
    /\ bf_values' = Append(bf_values, value)
    /\ UNCHANGED <<bf_kind, bf_namespace, bf_name, bf_labels, bf_registries,
                   bf_pc, bf_i, bf_calls, bf_channel, bf_collectors, bf_before, bf_checked>>
    /\ OtherThanBuilder

\* registry() of a builder: one more registry the metric will be sent to.
Builder_registry(r) ==
    /\ bf_pc # "register"
    /\ Len(bf_registries) < MaxRegistries
    /\ bf_registries' = Append(bf_registries, r)
    /\ UNCHANGED <<bf_kind, bf_namespace, bf_name, bf_labels, bf_values, bf_pc,
                   bf_i, bf_calls, bf_channel, bf_collectors, bf_before, bf_checked>>
    /\ OtherThanBuilder

\* The `?` after each check of finish(): the function goes on only with an
\* Ok.
Builder_finish_tryIgnored(checked) == TRUE
Builder_finish_try(checked) == checked = "Ok"

\* finish(), up to the construction of the metric: the `?` of a failed check
\* returns the error; otherwise the metric is built and the loop over the
\* registries starts.
Builder_finish_validate ==
    /\ bf_pc # "register"
    /\ bf_calls < MaxFinishes
    /\ bf_calls' = bf_calls + 1
    /\ bf_before' = [r \in RegistryIds |-> Registry_held(r)]
    /\ bf_checked' = IF Builder_finish_validates(bf_kind, bf_namespace, bf_name,
                                                 bf_labels, bf_values)
                     THEN "Ok" ELSE "InvalidInput"
    /\ IF Builder_finish_try(bf_checked')
       THEN /\ bf_pc' = "register"
            /\ bf_i' = 1
       ELSE /\ bf_pc' = bf_checked'
            /\ bf_i' = 0
    /\ UNCHANGED <<bf_kind, bf_namespace, bf_name, bf_labels, bf_values,
                   bf_registries, bf_channel, bf_collectors>>
    /\ OtherThanBuilder

\* finish(): `for r in &self.registries { r.register(metric.collector()) }`,
\* one registry; Registry::register sends the collector down the channel.
Builder_finish_register ==
    /\ bf_pc = "register"
    /\ bf_i <= Len(bf_registries)
    /\ bf_channel' = [bf_channel EXCEPT ![bf_registries[bf_i]] =
                         Sender_send(@, <<bf_kind, bf_calls>>)]
    /\ bf_i' = bf_i + 1
    /\ UNCHANGED <<bf_kind, bf_namespace, bf_name, bf_labels, bf_values,
                   bf_registries, bf_pc, bf_calls, bf_collectors, bf_before, bf_checked>>
    /\ OtherThanBuilder

\* finish(): the loop is over, Ok(metric).
Builder_finish_ok ==
    /\ bf_pc = "register"
    /\ bf_i > Len(bf_registries)
    /\ bf_pc' = "Ok"
    /\ bf_i' = 0
    /\ UNCHANGED <<bf_kind, bf_namespace, bf_name, bf_labels, bf_values,
                   bf_registries, bf_calls, bf_channel, bf_collectors,
                   bf_before, bf_checked>>
    /\ OtherThanBuilder

\* Gatherer::gather of registry r: try_recv moves one collector from the
\* channel to the gatherer's list.
Builder_gatherer_try_recv(r) ==
    /\ bf_channel[r] # << >>
    /\ bf_collectors' = [bf_collectors EXCEPT ![r] = Append(@, Head(bf_channel[r]))]
    /\ bf_channel' = [bf_channel EXCEPT ![r] = Tail(@)]
    /\ UNCHANGED <<bf_kind, bf_namespace, bf_name, bf_labels, bf_values,
                   bf_registries, bf_pc, bf_i, bf_calls, bf_before, bf_checked>>
    /\ OtherThanBuilder

BuilderNext ==
    \/ \E name \in BuilderLabelNames : Builder_label(name)
    \/ \E value \in BuilderValues : Builder_value(value)
    \/ \E r \in RegistryIds : Builder_registry(r)
    \/ Builder_finish_validate
    \/ Builder_finish_register
    \/ Builder_finish_ok
    \/ \E r \in RegistryIds : Builder_gatherer_try_recv(r)

\* One builder, configured and finished up to MaxFinishes times, with the
\* gatherers of its registries.
BuilderSpecInit ==
    BuilderInit /\ CounterInit /\ GaugeOff /\ HistogramOff /\ SummaryOff
    /\ LabelsOff /\ IterInit
    /\ RegistryInit
    /\ AggregateOff
    /\ AggBucketsOff
    /\ TimestampInit
    /\ ObservedInit
    /\ RenderOff
    /\ UpdateInit
    /\ HistReadOff
    /\ SumObserveOff
    /\ LabelsConcOff
    /\ LabelRefOff
    /\ CounterReadInit
    /\ GatherInit

SpecBuilder == BuilderSpecInit /\ [][BuilderNext]_vars

\* C35: when the checks of a finish() have failed, the call returns the error
\* and every registry of the builder holds exactly the collectors it held
\* when finish() was called: nothing was sent to any channel and no gatherer
\* received anything from the call.
C35_FailedFinishRegistersNothing ==
    bf_checked = "InvalidInput" =>
        /\ bf_pc = "InvalidInput"
        /\ \A r \in RegistryIds : Registry_held(r) = bf_before[r]

\* A finish() that succeeded and registered, then a label() that made the
\* builder invalid, then a finish() that failed with registries to send to.
C35_Witness ==
    /\ bf_pc = "InvalidInput"
    /\ bf_calls = 2
    /\ bf_registries # << >>
    /\ \E r \in RegistryIds : bf_before[r] >= 1
    /\ validate_metric_name(MetricName_fullname(bf_namespace, bf_name))

\* ----------------------------- termination of Gatherer::gather (registry.rs)

\* The collectors registered in all.
MaxGathered == 3

\* Registry::register: one more collector in the channel, of a metric the
\* application holds.
Gather_register ==
    /\ Len(gt_strong) < MaxGathered
    /\ gt_strong' = Append(gt_strong, 1)
    /\ gt_channel' = Sender_send(gt_channel, Len(gt_strong) + 1)
    /\ UNCHANGED <<gt_collectors, gt_pc, gt_i, gt_polls, gt_live0>>
    /\ OtherThanGather

\* The application drops the metric of collector c.
Gather_metric_drop(c) ==
    /\ c <= Len(gt_strong)
    /\ gt_strong[c] > 0
    /\ gt_strong' = [gt_strong EXCEPT ![c] = @ - 1]
    /\ UNCHANGED <<gt_channel, gt_collectors, gt_pc, gt_i, gt_polls, gt_live0>>
    /\ OtherThanGather

\* Gatherer::gather is called.
Gather_call ==
    /\ gt_pc = "idle"
    /\ gt_pc' = "drain"
    /\ gt_i' = 0
    /\ gt_polls' = 0
    /\ gt_live0' = 0
    /\ UNCHANGED <<gt_strong, gt_channel, gt_collectors>>
    /\ OtherThanGather

\* One turn of `while let Ok(collector) = self.rx.try_recv()`; on Err the
\* loop is over, `let mut i = 0`.
Gather_try_recv ==
    /\ gt_pc = "drain"
    /\ IF gt_channel # << >>
       THEN /\ gt_collectors' = Append(gt_collectors, Head(gt_channel))
            /\ gt_channel' = Tail(gt_channel)
            /\ UNCHANGED <<gt_pc, gt_live0>>
       ELSE /\ gt_pc' = "poll"
            /\ gt_live0' = Len(gt_collectors)
            /\ UNCHANGED <<gt_channel, gt_collectors>>
    /\ UNCHANGED <<gt_strong, gt_i, gt_polls>>
    /\ OtherThanGather

\* One turn of `while i < self.collectors.len()`: collect() upgrades the
\* Weak; Some advances i, None removes the collector with swap_remove(i).
Gather_collect ==
    /\ gt_pc = "poll"
    /\ gt_i < Len(gt_collectors)
    /\ gt_polls' = gt_polls + 1
    /\ IF Weak_upgrade(gt_strong[gt_collectors[gt_i + 1]])
       THEN /\ gt_i' = gt_i + 1
            /\ UNCHANGED gt_collectors
       ELSE /\ gt_collectors' = Vec_swap_remove(gt_collectors, gt_i + 1)
            /\ gt_i' = Gatherer_gather_sameIndex(gt_i)
    /\ UNCHANGED <<gt_strong, gt_channel, gt_pc, gt_live0>>
    /\ OtherThanGather

\* The polling loop is over: gather() sorts, groups and returns.
Gather_return ==
    /\ gt_pc = "poll"
    /\ gt_i >= Len(gt_collectors)
    /\ gt_pc' = "idle"
    /\ UNCHANGED <<gt_strong, gt_channel, gt_collectors, gt_i, gt_polls,
                   gt_live0>>
    /\ OtherThanGather

GatherNext ==
    \/ Gather_register
    \/ \E c \in 1 .. MaxGathered : Gather_metric_drop(c)
    \/ Gather_call
    \/ Gather_try_recv
    \/ Gather_collect
    \/ Gather_return

\* The thread inside gather() keeps running: each of its loops takes its next
\* turn, and the function returns when the second loop is over.
GatherFairness ==
    WF_gatherVars(Gather_try_recv \/ Gather_collect \/ Gather_return)

GatherSpecInit ==
    GatherInit /\ CounterInit /\ GaugeOff /\ HistogramOff /\ SummaryOff
    /\ LabelsOff /\ IterInit
    /\ RegistryInit
    /\ AggregateOff
    /\ AggBucketsOff
    /\ TimestampInit
    /\ ObservedInit
    /\ RenderOff
    /\ UpdateInit
    /\ HistReadOff
    /\ SumObserveOff
    /\ LabelsConcOff
    /\ LabelRefOff
    /\ CounterReadInit
    /\ BuilderOff

\* One Gatherer, registrations and drops by other threads, and a thread that
\* calls gather() and keeps running.
SpecGather == GatherSpecInit /\ [][GatherNext]_vars /\ GatherFairness

\* What is left of the polling loop: the collectors from index i on.
Gather_left == Len(gt_collectors) - gt_i

\* C36: every gather() returns; each turn of its polling loop either advances
\* the index past a kept collector or removes one collector and keeps the
\* index, so the turns taken plus the collectors left always make up the
\* collectors that were live when the loop began, and a gather() polls at
\* most that many times.
C36_GatherTerminates ==
    /\ (gt_pc # "idle") ~> (gt_pc = "idle")
    /\ [](gt_pc = "poll" =>
             /\ gt_polls + Gather_left = gt_live0
             /\ gt_polls <= gt_live0)
    /\ [][Gather_collect =>
             \/ gt_i' = gt_i + 1 /\ Len(gt_collectors') = Len(gt_collectors)
             \/ gt_i' = gt_i /\ Len(gt_collectors') = Len(gt_collectors) - 1]_vars

\* A gather() has returned after as many polls as there were live collectors,
\* one of which it removed and two of which it kept.
C36_Witness ==
    /\ gt_pc = "idle"
    /\ gt_live0 = MaxGathered
    /\ gt_polls = gt_live0
    /\ Len(gt_collectors) = gt_live0 - 1

\* ------------------- termination of AggregatedCumulativeBuckets (bucket.rs)

\* The consumer keeps calling next() until it returns None.
AggBucketsFairness == WF_aggBucketsVars(AggregatedCumulativeBuckets_next)

\* The histograms iterated to the end: every list of bounds, one observation
\* in each bucket.
AggIterHistograms ==
    {[i \in 1 .. Len(bs) |-> <<bs[i], 1>>] : bs \in AggBoundLists}

AggBucketsIterSpecInit ==
    /\ AggBucketsSpecInit
    /\ \A h \in 1 .. Len(ab_inners) : ab_inners[h] \in AggIterHistograms

SpecAggBucketsIter ==
    AggBucketsIterSpecInit /\ [][AggBucketsNext]_vars /\ AggBucketsFairness

\* The buckets in a list of bucket sequences.
RECURSIVE BucketsIn(_)
BucketsIn(hs) == IF hs = << >> THEN 0 ELSE Len(hs[1]) + BucketsIn(Tail(hs))

\* The buckets with bound b in a list of bucket sequences.
RECURSIVE BucketsWithBound(_, _)
BucketsWithBound(hs, b) ==
    IF hs = << >> THEN 0
    ELSE Len(SelectSeq(hs[1], LAMBDA bk : bk[1] = b))
         + BucketsWithBound(Tail(hs), b)

\* C37: the iteration ends with None; a next() that returns an entry consumes
\* a bucket that holds the minimum bound, which it reports, so the buckets
\* left go down by at least one; None comes exactly when every input is
\* exhausted, and then none is left in the list; the entries produced never
\* outnumber the buckets consumed, so they are at most the buckets of all
\* inputs.
C37_IterationTerminates ==
    /\ (ab_pc = "iterating") ~> (ab_pc = "done")
    /\ [](ab_pc \in {"iterating", "done"} =>
             Len(ab_yielded) + BucketsIn(ab_iters) <= BucketsIn(ab_inners))
    /\ [](ab_pc = "done" => ab_iters = << >>)
    /\ [][AggregatedCumulativeBuckets_next =>
             IF BucketsIn(ab_iters) = 0
             THEN ab_pc' = "done" /\ ab_yielded' = ab_yielded
             ELSE /\ ab_pc' = "iterating"
                  /\ Len(ab_yielded') = Len(ab_yielded) + 1
                  /\ BucketsIn(ab_iters') < BucketsIn(ab_iters)
                  /\ LET min == ab_yielded'[Len(ab_yielded')][1]
                     IN  BucketsWithBound(ab_iters', min)
                            < BucketsWithBound(ab_iters, min)]_vars

\* An iteration over two histograms of three buckets each has ended after
\* fewer entries than there are buckets.
C37_Witness ==
    /\ ab_pc = "done"
    /\ Len(ab_inners) = 2
    /\ BucketsIn(ab_inners) = 6
    /\ Len(ab_yielded) >= 3
    /\ Len(ab_yielded) < 6

\* -------------------------- Atomic64::update against set and update (atomic.rs)

\* Values given to Atomic64::set (Gauge::set).
UpdateSetValues == {0, One}

\* Atomic64::set: one store, whatever the cell holds.
Atomic64_set(t, value) ==
    /\ at_pc[t] = "idle"
    /\ at_cell' = value
    /\ at_event' = t
    /\ UNCHANGED <<at_pc, at_count, at_old, at_retried>>
    /\ OtherThanUpdate

UpdateSetNext ==
    \/ \E t \in Threads, c \in GaugeCounts : Atomic64_update(t, c)
    \/ \E t \in Threads : Atomic64_update_loop_get(t)
    \/ \E t \in Threads : Atomic64_update_loop_cas(t)
    \/ \E t \in Threads, v \in UpdateSetValues : Atomic64_set(t, v)

\* Thread 1 keeps taking steps while it is inside update; the other threads
\* may stop anywhere, inside update too.
UpdateSetFairness ==
    WF_vars(Atomic64_update_loop_get(1) \/ Atomic64_update_loop_cas(1))

\* One Atomic64<f64> that NumThreads threads update and set.
SpecUpdateSet == UpdateSpecInit /\ [][UpdateSetNext]_vars /\ UpdateSetFairness

\* C38: update is lock-free.  While a thread that keeps taking steps is inside
\* update, a store on the cell (the end of an update, or a set) takes effect
\* after finitely many steps.  What an update read is what the cell held; the
\* cell stops holding it only in a step in which another thread's store took
\* effect; and a compare_and_swap fails, storing nothing, only when the cell
\* no longer holds it.
C38_UpdateIsLockFree ==
    /\ (at_pc[1] # "idle") ~> (at_event \in Threads)
    /\ [][\A t \in Threads :
             /\ (at_pc[t] = "get" /\ at_pc'[t] = "cas") => at_old'[t] = at_cell'
             /\ (at_pc[t] = "cas" /\ at_pc'[t] = "cas"
                 /\ at_cell = at_old[t] /\ at_cell' # at_old[t])
                   => at_event' \in Threads \ {t}
             /\ (at_pc[t] = "cas" /\ at_pc'[t] = "get")
                   => at_cell # at_old[t] /\ at_cell' = at_cell /\ at_event' = 0
          ]_vars

\* A thread inside update whose read has just been overtaken by the set of a
\* thread that never called update.
C38_Witness ==
    /\ at_pc[1] = "cas"
    /\ at_cell # at_old[1]
    /\ at_event = 2
    /\ at_count[2] = 0
    /\ at_pc[2] = "idle"

====
